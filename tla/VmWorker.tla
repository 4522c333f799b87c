------------------------------ MODULE VmWorker ------------------------------
(***************************************************************************)
(* The forked child, vm-worker.js, with the worker side of                 *)
(* process_executor/snapshot_channel.js.  Executions are chained, one at a *)
(* time; snapshot and endBlock frames take effect as soon as they arrive,  *)
(* ahead of a chained execution that has not resolved its snapshot yet.    *)
(***************************************************************************)
EXTENDS WorkerIPC

VARIABLES
    jobs,      \* jobs[w]: the chained executions, the first one possibly running
    wsnap,     \* wsnap[w]: the snapshot worker w holds, with its token
    ran,       \* history: the contracts started, in order, with the data they saw
    finished,  \* history: the ids whose contract ran to its end
    rogue      \* number of odd frames sent, for the bound MaxRogue

workerVars == <<jobs, wsnap, ran, finished, rogue>>

Job(f, phase) == [id |-> f.id, ref |-> f.ref, val |-> f.val, phase |-> phase]
NoWorkerSnapshot == [token |-> NoToken, val |-> 0]

WorkerInit ==
    /\ jobs = [w \in Workers |-> <<>>]
    /\ wsnap = [w \in Workers |-> NoWorkerSnapshot]
    /\ ran = <<>>
    /\ finished = {}
    /\ rogue = 0

(***************************************************************************)
(* Frames.  Got(w, type): w takes a frame of that type from its channel.   *)
(***************************************************************************)
Got(w, type) ==
    /\ inbox[w] # <<>>
    /\ Head(inbox[w]).type = type
    /\ inbox' = [inbox EXCEPT ![w] = Tail(@)]

Send(w, r) == outbox' = [outbox EXCEPT ![w] = Append(@, r)]

handleInitMessage(w) ==
    /\ wstate[w] = "starting" /\ Got(w, "init")
    /\ wstate' = [wstate EXCEPT ![w] = "up"]
    /\ Send(w, Reply("ready", 0, NoToken))
    /\ UNCHANGED <<killed, jobs, wsnap, ran, finished, rogue>>

onSnapshotFrame(w) ==
    /\ wstate[w] = "up" /\ Got(w, "snapshot")
    /\ LET f == Head(inbox[w]) IN
         /\ wsnap' = [wsnap EXCEPT ![w] = [token |-> f.ref, val |-> f.val]]
         /\ Send(w, Reply("snapshotAck", 0, f.ref))
    /\ UNCHANGED <<wstate, killed, jobs, ran, finished, rogue>>

\* vm.beginBlock() only resets the worker's compile cache.
handleBeginBlockMessage(w) ==
    /\ wstate[w] = "up" /\ Got(w, "beginBlock")
    /\ UNCHANGED <<outbox, wstate, killed, jobs, wsnap, ran, finished, rogue>>

handleEndBlockMessage(w) ==
    /\ wstate[w] = "up" /\ Got(w, "endBlock")
    /\ wsnap' = [wsnap EXCEPT ![w] = NoWorkerSnapshot]
    /\ UNCHANGED <<outbox, wstate, killed, jobs, ran, finished, rogue>>

handleExecuteMessage(w) ==
    /\ wstate[w] = "up" /\ Got(w, "execute")
    /\ jobs' = [jobs EXCEPT ![w] = Append(@, Job(Head(inbox[w]), "chained"))]
    /\ UNCHANGED <<outbox, wstate, killed, wsnap, ran, finished, rogue>>

(***************************************************************************)
(* The chained execution.                                                  *)
(***************************************************************************)
AtHead(w, phase) ==
    wstate[w] = "up" /\ jobs[w] # <<>> /\ Head(jobs[w]).phase = phase

\* resolveWorkerCrossChainSnapshot() accepts inline data and the current token.
Resolves(w, j) == j.ref = NoToken \/ j.ref = wsnap[w].token
Resolved(w, j) == IF j.ref = NoToken THEN j.val ELSE wsnap[w].val

\* vm.execute() gets as far as the contract's first instruction.
StartContract(w) ==
    /\ AtHead(w, "chained")
    /\ LET j == Head(jobs[w]) IN
         /\ Resolves(w, j)
         /\ ran' = Append(ran, [id |-> j.id, data |-> Resolved(w, j), w |-> w])
         /\ jobs' = [jobs EXCEPT ![w] = <<[j EXCEPT !.phase = "running"]>> \o Tail(@)]
    /\ UNCHANGED <<inbox, outbox, wstate, killed, wsnap, finished, rogue>>

\* Report a host fault for the execution at the head of the chain.
ReplyHostFault(w) ==
    /\ Send(w, Reply("hostfault", Head(jobs[w]).id, newDispatchToken(Head(jobs[w]).id)))
    /\ jobs' = [jobs EXCEPT ![w] = Tail(@)]
    /\ UNCHANGED <<inbox, wstate, killed, wsnap, ran, finished, rogue>>

\* The reference is stale: HostFaultError before any contract code.
StaleReference(w) ==
    /\ AtHead(w, "chained")
    /\ ~Resolves(w, Head(jobs[w]))
    /\ ReplyHostFault(w)

\* vm.execute() throws: no isolate could be created before the contract ran, or,
\* behind the halt gate, anything that escaped later.
EscapedThrow(w) ==
    /\ w \in Flaky
    /\ AtHead(w, "chained") \/ AtHead(w, "running")
    /\ ReplyHostFault(w)

\* vm.execute() returned a result (success or failure alike).
FinishContract(w) ==
    /\ AtHead(w, "running")
    /\ LET id == Head(jobs[w]).id IN
         /\ Send(w, Reply("result", id, newDispatchToken(id)))
         /\ finished' = finished \cup {id}
    /\ jobs' = [jobs EXCEPT ![w] = Tail(@)]
    /\ UNCHANGED <<inbox, wstate, killed, wsnap, ran, rogue>>

(***************************************************************************)
(* Deaths and odd frames.                                                  *)
(***************************************************************************)
Die(w, how) ==
    /\ wstate' = [wstate EXCEPT ![w] = how]
    /\ inbox' = [inbox EXCEPT ![w] = <<>>]
    /\ jobs' = [jobs EXCEPT ![w] = <<>>]
    /\ wsnap' = [wsnap EXCEPT ![w] = NoWorkerSnapshot]
    /\ UNCHANGED <<outbox, killed, ran, finished, rogue>>

\* A crash at any moment: idle, starting, or in the middle of a contract.  A
\* fork that failed asynchronously is a "starting" worker dying externally;
\* process.exit(1) after an escaped throw is a "self" death.
Crash(w, how) == w \in Flaky /\ Alive(w) /\ Die(w, how)

\* The parent's SIGKILL arrives (after any number of further steps).
KillArrives(w) == Alive(w) /\ killed[w] /\ Die(w, "external")

\* Frames the protocol has no place for: a second ready, a reply with a token
\* the worker cannot know (or without a well-formed result) for any id, a repeat
\* of a reply it already sent.
OddFrames(ids) ==
    {Reply("ready", 0, NoToken)}
    \cup {Reply("result", i, NoToken) : i \in ids}
    \cup {Reply("result", i, newDispatchToken(i)) : i \in finished}

SendOddFrame(w, ids) ==
    /\ w \in Flaky /\ wstate[w] = "up" /\ rogue < MaxRogue
    /\ rogue' = rogue + 1
    /\ \E r \in OddFrames(ids) : Send(w, r)
    /\ UNCHANGED <<inbox, wstate, killed, jobs, wsnap, ran, finished>>

=============================================================================
