--------------------------- MODULE ExecutorSystem ---------------------------
(***************************************************************************)
(* The executor and its workers together, with callers that issue calls at *)
(* any time.                                                               *)
(***************************************************************************)
EXTENDS ProcessExecutor, VmWorker, FiniteSets

vars == <<executorVars, ipcVars, workerVars>>

Init == ExecutorInit /\ IPCInit /\ WorkerInit

Caller ==
    \/ \E kind \in OptKinds :
          executeRejected(kind) \/ executeProbe(kind) \/ executeQueued(kind)
    \/ beginBlock
    \/ endBlock
    \/ shutdown

Listen(w) ==
    \/ onStaleFrame(w)
    \/ onSnapshotAck(w)
    \/ onReady(w)
    \/ onReadyAgain(w)
    \/ onUnknownReply(w)
    \/ onBadReply(w)
    \/ onReply(w)

Timers ==
    \/ onReadyTimeout
    \/ onAckTimeout
    \/ \E id \in Requests : onWatchdog(id)
    \/ BackoffElapses

Executor ==
    /\ \/ Caller
       \/ \E w \in Workers : Listen(w)
       \/ onChildExit
       \/ onDisconnect
       \/ Timers
    /\ UNCHANGED workerVars

Working(w) ==
    \/ handleInitMessage(w)
    \/ onSnapshotFrame(w)
    \/ handleBeginBlockMessage(w)
    \/ handleEndBlockMessage(w)
    \/ handleExecuteMessage(w)
    \/ StartContract(w)
    \/ StaleReference(w)
    \/ FinishContract(w)

Worker(w) ==
    /\ \/ Working(w)
       \/ EscapedThrow(w)
       \/ \E how \in Deaths : Crash(w, how)
       \/ KillArrives(w)
       \/ SendOddFrame(w, Requests)
    /\ UNCHANGED executorVars

Next == Executor \/ \E w \in Workers : Worker(w)

Spec == Init /\ [][Next]_vars

(***************************************************************************)
(* Fairness.  node delivers frames, exit events and due timers; a SIGKILL  *)
(* takes effect; a worker that is not Flaky keeps handling its frames and  *)
(* finishes its contracts (the in-isolate budget bounds each of them).     *)
(***************************************************************************)
Fairness ==
    /\ \A w \in Workers : WF_vars(Listen(w) /\ UNCHANGED workerVars)
    /\ WF_vars(onChildExit /\ UNCHANGED workerVars)
    /\ WF_vars(Timers /\ UNCHANGED workerVars)
    /\ \A w \in Workers : WF_vars(KillArrives(w) /\ UNCHANGED executorVars)
    /\ \A w \in Workers \ Flaky : WF_vars(Working(w) /\ UNCHANGED executorVars)

FairSpec == Spec /\ Fairness

-----------------------------------------------------------------------------
(***************************************************************************)
(* Properties.                                                             *)
(***************************************************************************)

\* The fields of the executor and of its workers have the values the code
\* gives them.
TypeOK ==
    /\ outcome \in [Requests -> Outcomes]
    /\ opts \in [Requests -> [kind : AllOptKinds, data : Nat]]
    /\ nextId \in 1..MaxRequests + 1
    /\ queue \in Seq(Requests)
    /\ pending \subseteq Requests
    /\ child \in Workers \cup {NoChild}
    /\ gen \in 0..MaxWorkers
    /\ connected \in BOOLEAN /\ sawReady \in BOOLEAN /\ everReady \in BOOLEAN
    /\ readyTimer \in BOOLEAN
    /\ failures \in 0..MaxSpawnFailures
    /\ broken \in BOOLEAN /\ backoff \in BOOLEAN
    /\ inBlock \in BOOLEAN /\ blockNo \in Nat
    /\ chan \in Channels
    /\ nextTok \in Nat
    /\ shuttingDown \in BOOLEAN
    /\ wstate \in [Workers -> WorkerStates]
    /\ killed \in [Workers -> BOOLEAN]

\* No promise is lost: a call that waits is queued or in flight, once, and
\* nothing else is; the queue keeps the order of the calls.
Tracked(q, pd, oc) ==
    /\ \A i \in Requests : oc[i] = "waiting" <=> i \in Entries(q) \cup pd
    /\ Entries(q) \cap pd = {}
    /\ \A i, j \in 1..Len(q) : i < j => q[i] < q[j]
    /\ \A i, j \in pd : i = j

\* No promise is lost, and a call waits only while some worker is there to
\* serve it: neither the broken latch nor shutdown() leaves a promise hanging.
WaitingIsTracked ==
    /\ Tracked(queue, pending, outcome)
    /\ ~Quiet => child # NoChild

\* WaitingIsTracked made inductive: a call gets a number that is not in use;
\* there is no worker only when the latch or shutdown() took it away.
ExecutorInv ==
    /\ TypeOK
    /\ WaitingIsTracked
    /\ \A i \in Requests : i >= nextId => outcome[i] = "none"
    /\ broken => child = NoChild
    /\ child = NoChild => broken \/ shuttingDown
    /\ shuttingDown => child = NoChild

Running(w) == Alive(w) /\ jobs[w] # <<>> /\ Head(jobs[w]).phase = "running"

\* Contracts run in the order of the execute() calls, each at most once: a
\* request whose worker died in mid-contract is settled, never run again.
RunInOrderOnce ==
    \A i, j \in 1..Len(ran) : i < j => ran[i].id < ran[j].id

\* A promise resolves with a result only if the contract really ran to its
\* end: forged, repeated, late and malformed replies never become results.
ResultsAreGenuine ==
    \A i \in Requests : outcome[i] = "result" => i \in finished

\* A contract sees the cross-chain snapshot its own call carried, whether it
\* travelled inline or by reference, and whatever happened to the worker that
\* had been sent it.
RanOnItsSnapshot ==
    \A i \in 1..Len(ran) : ran[i].data = opts[ran[i].id].data

\* A reference an execute frame carries resolves in its worker: the execution is
\* held until that worker has acknowledged the snapshot, so no call in flight ends
\* in the stale-reference host fault if callers settle a block's calls before they
\* end the block.
ReferencesResolve ==
    \A w \in Workers :
        AtHead(w, "chained") /\ Head(jobs[w]).id \in pending
            => Resolves(w, Head(jobs[w]))

\* Nothing is dispatched to a worker the executor has decided to kill, whatever
\* frames that worker still sends.
NoDispatchToDoomed ==
    [][\A i \in pending' \ pending : ~killed[child] /\ everReady']_vars

\* Every call settles, once the host stops losing workers (the last worker is
\* not Flaky) and if callers settle a block's calls before they end the block.
EveryCallSettles ==
    \A i \in Requests : (outcome[i] = "waiting") ~> (outcome[i] \in Settled)

\* The executor with its workers implements the queue with one server of
\* ExecutionService, through every crash, timeout, latch and shutdown.
Service == INSTANCE ExecutionService WITH
    Calls <- Requests, Verdicts <- Settled,
    promise <- outcome, line <- queue, serving <- pending

ImplementsService == Service!Spec

\* The header of process-executor.js: "only an execution where the contract
\* actually ran and killed the worker resolves hostTerminatedResult".
TerminatedOnlyIfRan ==
    \A i \in Requests :
        outcome[i] = "terminated" => \E k \in 1..Len(ran) : ran[k].id = i

=============================================================================
