------------------------------- MODULE Simulator -------------------------------
(***************************************************************************)
(* The contract simulator of the toolkit (toolkit/simulator.js and         *)
(* toolkit/simulator/): deploys and calls of an author's test, over a      *)
(* virtual machine in this process or in a worker.                         *)
(*                                                                         *)
(* deploy() and call() are asynchronous.  In this process the contract     *)
(* runs while the function is called, and what follows its await comes     *)
(* later.  With a worker the executor serialises the options, which hold   *)
(* the contract's state and the seeded data by reference, when it          *)
(* dispatches the entry.  Either way an author who does not await puts     *)
(* other steps in between.                                                 *)
(*                                                                         *)
(* Seeded data is a count of the seeds set so far; a contract's state is   *)
(* the set of runs whose effects it carries, which a deleting run empties. *)
(***************************************************************************)
EXTENDS Integers, Sequences, FiniteSets

CONSTANTS
    Modes,          \* execution modes under study
    Authors,        \* authors under study: what they deploy and how far they go
    Indexes,        \* contract indexes
    Ops,            \* what a run does to the state: "add", "drop"
    MetaFrom,       \* first block with CONTRACT_META_REQUIRED
    StrictFrom      \* first block with DEPLOY_INIT_STRICT

NoIndex == -1       \* deploy() with no index of its own
Unset   == -1       \* the worker has no snapshot

\* An author awaits every deploy and call or none, and deploys sources as the
\* deploy gate can tell them apart.  The bounds: deploys and calls, block
\* heights, seeds of cross-chain data, workers lost.
Author(awaits, sources, maxTasks, maxBlock, maxSeeds, maxCrashes) ==
    [awaits |-> awaits, sources |-> sources, maxTasks |-> maxTasks,
     maxBlock |-> maxBlock, maxSeeds |-> maxSeeds, maxCrashes |-> maxCrashes]

ASSUME SimulatorAssumption ==
    /\ Modes \subseteq {"in-process", "subprocess"}
    /\ Indexes \subseteq Nat
    /\ {MetaFrom, StrictFrom} \subseteq Nat
    /\ \A a \in Authors :
         /\ a.awaits \in BOOLEAN
         /\ {a.maxTasks, a.maxBlock, a.maxSeeds, a.maxCrashes} \subseteq Nat
         /\ \A s \in a.sources : /\ s.bannedFrom \in Nat
                                 /\ {s.reads, s.policy, s.meta, s.init} \subseteq BOOLEAN

VARIABLES
    author, mode, block, blockOpen, closed,
    contracts,      \* index to the contract object registered there, 0 for none
    nextIndex,
    objects,        \* contract objects, in the order they were made
    tasks,          \* deploys and calls, in the order they were made
    queue,          \* the executor's queue
    inflight,       \* the task whose run the worker has, 0 for none
    settled,        \* tasks whose execution settled and whose continuation is due
    seeds,          \* seeds in crossChainData
    held,           \* the channel holds the block's snapshot, for this worker or the next
    snapshot,       \* the seeds in the copy the worker has, Unset for none
    blockSeeds,     \* history: those there were when the block was opened
    crashes

world    == <<author, mode, block, blockOpen, closed, seeds, blockSeeds>>
executor == <<queue, inflight, settled, held, snapshot, crashes>>
registry == <<contracts, nextIndex>>
vars     == <<world, executor, registry, objects, tasks>>

Init ==
    /\ author \in Authors /\ mode \in Modes
    /\ block = 0 /\ blockOpen = TRUE /\ closed = FALSE
    /\ contracts = [i \in Indexes |-> 0]
    /\ nextIndex = 0
    /\ objects = <<>> /\ tasks = <<>>
    /\ queue = <<>> /\ inflight = 0 /\ settled = <<>>
    /\ seeds = 0 /\ held = FALSE /\ snapshot = Unset /\ blockSeeds = 0
    /\ crashes = 0

\* The author's next statement: at any time, or once all promises have settled.
AuthorsTurn == author.awaits => \A t \in DOMAIN tasks : tasks[t].at = "done"
-------------------------------------------------------------------------------
(***************************************************************************)
(* vm.execute() seen from the simulator.                                   *)
(***************************************************************************)

\* A success, a failure the machine reports as a result, a rejected promise.  A
\* manifest read succeeds when the top level of the module does.
Outcomes(t) ==
    IF t.leg = "run" THEN {"ok", "failed", "rejected"}
    ELSE {IF t.source.reads THEN "ok" ELSE "failed", "rejected"}

Apply(op, id, state) == IF op = "drop" THEN {} ELSE state \cup {id}

\* A contract object with the runs applied one after the other as history, and
\* whether some run read the state before the one ahead of it had committed.
NewObject(source) == [source |-> source, state |-> {}, serial |-> {}, overlapped |-> FALSE]

\* What is read when the options are: a manifest read takes none of it.
Reads(t, objs, crossChain) ==
    IF t.leg = "manifest" THEN t
    ELSE [t EXCEPT !.read = objs[t.obj].state, !.seen = crossChain, !.floor = blockSeeds]

Ends(t, outcome) == [t EXCEPT !.at = "settled", !.outcome = outcome]

\* History: an earlier run of the object has settled and is not committed yet.
MarkRead(objs, t) ==
    IF t.leg = "run" /\ \E i \in DOMAIN settled :
            LET other == tasks[settled[i]]
            IN  other.leg = "run" /\ other.obj = t.obj /\ other.outcome = "ok"
    THEN [objs EXCEPT ![t.obj].overlapped = TRUE]
    ELSE objs

MarkEnd(objs, t, id, outcome) ==
    IF t.leg = "run" /\ outcome = "ok"
    THEN [objs EXCEPT ![t.obj].serial = Apply(t.op, id, @)]
    ELSE objs

Put(id, t) == IF id > Len(tasks) THEN Append(tasks, t) ELSE [tasks EXCEPT ![id] = t]

\* The task of number id begins an execution: at once, or in the executor's
\* queue.  An executor that was shut down, or whose latch broke when a worker
\* was lost, rejects it.  due: the continuations due so far.
Launch(id, t, objs, due) ==
    /\ \/ /\ mode = "in-process"
          /\ \E outcome \in Outcomes(t) :
               /\ tasks' = Put(id, Ends(Reads(t, objs, seeds), outcome))
               /\ objects' = MarkEnd(MarkRead(objs, t), t, id, outcome)
          /\ settled' = Append(due, id)
          /\ UNCHANGED queue
       \/ /\ mode = "subprocess" /\ ~closed
          /\ tasks' = Put(id, [t EXCEPT !.at = "waiting"])
          /\ queue' = Append(queue, id)
          /\ settled' = due
          /\ objects' = objs
       \/ /\ mode = "subprocess" /\ (closed \/ crashes > 0)
          /\ tasks' = Put(id, Ends(t, "rejected"))
          /\ settled' = Append(due, id)
          /\ objects' = objs
          /\ UNCHANGED queue
    /\ UNCHANGED <<inflight, held, snapshot, crashes>>

\* The first entry of a block that carries cross-chain data, which a manifest
\* read does not, gives the channel the block's snapshot.  From then on an entry
\* waits until the worker has a copy.
SnapshotDue == snapshot = Unset /\ (held \/ tasks[Head(queue)].leg = "run")

SendSnapshot ==
    /\ inflight = 0 /\ queue # <<>>
    /\ SnapshotDue
    /\ held' = TRUE
    /\ snapshot' = seeds
    /\ UNCHANGED <<world, registry, objects, tasks, queue, inflight, settled, crashes>>

Send(id) ==
    /\ tasks' = [tasks EXCEPT ![id] = [Reads(@, objects, snapshot) EXCEPT !.at = "inflight"]]
    /\ objects' = MarkRead(objects, tasks[id])
    /\ inflight' = id
    /\ queue' = Tail(queue)
    /\ UNCHANGED <<world, registry, settled, held, snapshot, crashes>>

\* The entry is serialised, its cross-chain data replaced by a reference.
Dispatch ==
    /\ inflight = 0 /\ queue # <<>>
    /\ ~SnapshotDue
    /\ Send(Head(queue))

Settle(outcome) ==
    /\ tasks' = [tasks EXCEPT ![inflight] = Ends(@, outcome)]
    /\ objects' = MarkEnd(objects, tasks[inflight], inflight, outcome)
    /\ settled' = Append(settled, inflight)
    /\ inflight' = 0

Reply ==
    /\ inflight # 0
    /\ \E outcome \in Outcomes(tasks[inflight]) : Settle(outcome)
    /\ UNCHANGED <<world, registry, queue, held, snapshot, crashes>>

\* The executor's entries that end without a result of the worker: the one in
\* flight with the outcome, the queued ones rejected.
InWorker == IF inflight = 0 THEN <<>> ELSE <<inflight>>
Entries  == InWorker \o queue

Dropped(entries, outcome) ==
    /\ tasks' = [t \in DOMAIN tasks |->
                   IF \E i \in DOMAIN entries : entries[i] = t
                   THEN Ends(tasks[t], IF t = inflight THEN outcome ELSE "rejected")
                   ELSE tasks[t]]
    /\ settled' = settled \o entries
    /\ queue' = IF entries = Entries THEN <<>> ELSE queue
    /\ inflight' = 0

\* The worker dies, and the latch may break.  The next worker is sent the
\* snapshot as it is then, unless the channel dropped it because it could not
\* be sent to the dying one.
WorkerLost ==
    /\ mode = "subprocess" /\ ~closed /\ crashes < author.maxCrashes
    /\ crashes' = crashes + 1
    /\ snapshot' = Unset
    /\ held' \in {held, FALSE}
    /\ \E outcome \in {"failed", "rejected"} :
         \/ Dropped(InWorker, outcome)
         \/ Dropped(Entries, outcome)
    /\ UNCHANGED <<world, registry, objects>>
-------------------------------------------------------------------------------
(***************************************************************************)
(* deploy() and call().                                                    *)
(***************************************************************************)

Task(kind, index, op) ==
    [kind |-> kind, index |-> index, op |-> op, leg |-> "run", at |-> "waiting", obj |-> 0,
     source |-> "none", params |-> FALSE, init |-> FALSE,
     read |-> {}, seen |-> seeds, called |-> seeds, floor |-> 0,
     outcome |-> "none", verdict |-> "none", blocks |-> {}]

\* The first two legs: size and syntax, under the rules of the current block.
\* A host that cannot run them gives no verdict.
deployGateVerdict(source) ==
    IF block >= source.bannedFrom THEN {"lint", "host"} ELSE {"valid", "host"}

isContractMetaRequiredActive == block >= MetaFrom
isDeployInitStrictActive     == block >= StrictFrom

\* The policy rows are judged over a read that succeeded, the meta ladder over any.
manifestPolicyError(source, reads) == reads /\ ~source.policy
contractMetaError(source, reads)   == ~(reads /\ source.meta)

\* The third leg, judged under the rules of the block there is then.
manifestLegVerdict(source, reads) ==
    IF manifestPolicyError(source, reads) THEN "policy"
    ELSE IF isContractMetaRequiredActive /\ contractMetaError(source, reads) THEN "meta"
    ELSE "valid"

\* Whether initialize runs.
runDeployConstructor(t) == t.params \/ (isDeployInitStrictActive /\ t.init)

\* Mutant: a failed constructor replaces any verdict.
constructorFailsAll(verdict, outcome) ==
    IF outcome = "failed" THEN "constructor" ELSE verdict

constructorGateVerdict(verdict, outcome) ==
    IF verdict = "valid" /\ outcome = "failed" THEN "constructor" ELSE verdict

\* The contract is registered whatever the verdict, and its constructor run.
RegisterAndConstruct(id, t, due) ==
    LET objs == Append(objects, NewObject(t.source))
        made == [t EXCEPT !.leg = "run", !.obj = Len(objs), !.blocks = @ \cup {block}]
    IN  /\ contracts' = [contracts EXCEPT ![t.index] = Len(objs)]
        /\ \/ /\ runDeployConstructor(made)
              /\ Launch(id, made, objs, due)
           \/ /\ ~runDeployConstructor(made)
              /\ tasks' = Put(id, [made EXCEPT !.at = "done"])
              /\ objects' = objs
              /\ settled' = due
              /\ UNCHANGED <<queue, inflight, held, snapshot, crashes>>

Bumped(index) == IF index >= nextIndex THEN index + 1 ELSE nextIndex

\* The part of deploy() before its first await.
Deploy(source, want, params) ==
    LET index == IF want = NoIndex THEN nextIndex ELSE want
        id    == Len(tasks) + 1
    IN  /\ AuthorsTurn /\ Len(tasks) < author.maxTasks
        /\ index \in Indexes
        /\ nextIndex' = Bumped(index)
        /\ \E verdict \in deployGateVerdict(source) :
             LET t == [Task("deploy", index, "add") EXCEPT
                         !.source = source, !.params = params,
                         !.verdict = verdict, !.blocks = {block}]
             IN  IF verdict = "valid"
                 THEN /\ Launch(id, [t EXCEPT !.leg = "manifest"], objects, settled)
                      /\ UNCHANGED contracts
                 ELSE RegisterAndConstruct(id, t, settled)
        /\ UNCHANGED world

\* execute() before its await: the contract object is looked up now.
Call(index, op) ==
    /\ AuthorsTurn /\ Len(tasks) < author.maxTasks
    /\ contracts[index] # 0
    /\ Launch(Len(tasks) + 1, [Task("call", index, op) EXCEPT !.obj = contracts[index]],
              objects, settled)
    /\ UNCHANGED <<world, registry>>

\* Continuations of one kind come in the order their executions settled.
Due(id) ==
    \E i \in DOMAIN settled :
        /\ settled[i] = id
        /\ \A j \in 1..(i - 1) : tasks[settled[j]].leg # tasks[id].leg

Without(id) ==
    LET i == CHOOSE j \in DOMAIN settled : settled[j] = id
    IN  SubSeq(settled, 1, i - 1) \o SubSeq(settled, i + 1, Len(settled))

\* manifestGate after its await, and deploy() up to the next one.  Only a
\* rejected promise is a gate that did not run.
AfterManifest(id) ==
    LET t     == tasks[id]
        reads == t.outcome = "ok"
    IN  /\ Due(id) /\ t.leg = "manifest"
        /\ RegisterAndConstruct(id,
             [t EXCEPT !.verdict = IF t.outcome = "rejected" THEN "host"
                                   ELSE manifestLegVerdict(t.source, reads),
                       !.init = reads /\ t.source.init,
                       !.outcome = "none"],
             Without(id))
        /\ UNCHANGED <<world, nextIndex>>

\* Mutant: the contract is looked up again after the await.
CommitByIndex(t, id) ==
    IF t.outcome = "ok"
    THEN [objects EXCEPT ![contracts[t.index]].state = Apply(t.op, id, t.read)]
    ELSE objects

\* The changes of a successful result go to the object the run was given.
Commit(t, id) ==
    IF t.outcome = "ok"
    THEN [objects EXCEPT ![t.obj].state = Apply(t.op, id, t.read)]
    ELSE objects

\* execute() after its await, and deploy() after that of its constructor.
AfterRun(id) ==
    LET t == tasks[id]
    IN  /\ Due(id) /\ t.leg = "run"
        /\ objects' = Commit(t, id)
        /\ tasks' = [tasks EXCEPT ![id].at = "done",
                                 ![id].verdict = constructorGateVerdict(@, t.outcome)]
        /\ settled' = Without(id)
        /\ UNCHANGED <<world, registry, queue, inflight, held, snapshot, crashes>>
-------------------------------------------------------------------------------
(***************************************************************************)
(* Blocks, seeds and the end.                                              *)
(***************************************************************************)
setBlock(height) ==
    /\ AuthorsTurn
    /\ block' = height
    /\ UNCHANGED <<author, mode, blockOpen, closed, seeds, blockSeeds, executor, registry,
                   objects, tasks>>

\* Mutant: the machine is not told.
advanceHeightOnly ==
    /\ AuthorsTurn /\ block < author.maxBlock
    /\ block' = block + 1
    /\ blockOpen' = TRUE
    /\ blockSeeds' = seeds
    /\ UNCHANGED <<author, mode, closed, seeds, executor, registry, objects, tasks>>

\* endBlock, where one is open, and beginBlock: the channel forgets its snapshot.
advanceBlock ==
    /\ AuthorsTurn /\ block < author.maxBlock
    /\ block' = block + 1
    /\ blockOpen' = TRUE
    /\ held' = FALSE /\ snapshot' = Unset
    /\ blockSeeds' = seeds
    /\ UNCHANGED <<author, mode, closed, seeds, queue, inflight, settled, crashes, registry,
                   objects, tasks>>

\* setCrossChainSettled and its like change the snapshot object in place.
setCrossChain ==
    /\ AuthorsTurn /\ seeds < author.maxSeeds
    /\ seeds' = seeds + 1
    /\ UNCHANGED <<author, mode, block, blockOpen, closed, blockSeeds, executor, registry,
                   objects, tasks>>

\* The block is ended and the executor, where there is one, shut down: it
\* rejects all it holds, the dispatched entry first.
close ==
    /\ AuthorsTurn /\ ~closed
    /\ blockOpen' = FALSE /\ closed' = TRUE
    /\ held' = FALSE /\ snapshot' = Unset
    /\ Dropped(Entries, "rejected")
    /\ UNCHANGED <<author, mode, block, seeds, blockSeeds, crashes, registry, objects>>

Next ==
    \/ \E source \in author.sources, want \in Indexes \cup {NoIndex}, params \in BOOLEAN :
          Deploy(source, want, params)
    \/ \E index \in Indexes, op \in Ops : Call(index, op)
    \/ SendSnapshot \/ Dispatch \/ Reply \/ WorkerLost
    \/ \E id \in DOMAIN tasks : AfterManifest(id) \/ AfterRun(id)
    \/ \E height \in 0..author.maxBlock : setBlock(height)
    \/ advanceBlock
    \/ setCrossChain
    \/ close

Spec == Init /\ [][Next]_vars
-------------------------------------------------------------------------------
(***************************************************************************)
(* Properties.                                                             *)
(***************************************************************************)
Ids == 1..author.maxTasks

TypeOK ==
    /\ author \in Authors /\ mode \in Modes /\ block \in 0..author.maxBlock
    /\ blockOpen \in BOOLEAN /\ closed \in BOOLEAN
    /\ nextIndex \in Nat
    /\ contracts \in [Indexes -> 0..Len(objects)]
    /\ \A o \in DOMAIN objects : objects[o].state \subseteq Ids /\ objects[o].serial \subseteq Ids
    /\ \A t \in DOMAIN tasks :
         /\ tasks[t].at \in {"waiting", "inflight", "settled", "done"}
         /\ tasks[t].seen \in 0..author.maxSeeds
         /\ tasks[t].leg = "run" => tasks[t].obj \in DOMAIN objects
    /\ queue \in Seq(Ids) /\ settled \in Seq(Ids) /\ inflight \in 0..author.maxTasks
    /\ {seeds, blockSeeds} \subseteq 0..author.maxSeeds
    /\ held \in BOOLEAN /\ snapshot \in {Unset} \cup 0..seeds

Uncommitted(o) ==
    \E t \in DOMAIN tasks : tasks[t].leg = "run" /\ tasks[t].obj = o /\ tasks[t].at = "settled"

\* "Commit committed state exactly as the indexer does" (execution.js): the
\* committed state of a contract is that of its successful runs one after the
\* other, failed ones leaving no trace, unless two of its runs overlapped, which
\* takes an author who does not await.  Runs that overlap may overwrite one
\* another, but even then, and when a contract is replaced while a run of it is
\* under way, a state holds nothing but effects of successful runs of that contract.
SerialUnlessOverlapped ==
    \A o \in DOMAIN objects :
        /\ \A id \in objects[o].state : tasks[id].obj = o /\ tasks[id].outcome = "ok"
        /\ \/ objects[o].overlapped /\ ~author.awaits
           \/ Uncommitted(o)
           \/ objects[o].state = objects[o].serial

\* What the chain records of a deploy in block b, the constructor's outcome given.
ChainVerdict(source, params, b, outcome) ==
    IF b >= source.bannedFrom THEN "lint"
    ELSE IF source.reads /\ ~source.policy THEN "policy"
    ELSE IF b >= MetaFrom /\ ~(source.reads /\ source.meta) THEN "meta"
    ELSE IF /\ params \/ (b >= StrictFrom /\ source.reads /\ source.init)
            /\ outcome = "failed"
    THEN "constructor"
    ELSE "valid"

\* "deployGate is the chain's deploy verdict" (execution.js): of a deploy during
\* which the block did not change, on a host that did not fail.
VerdictIsTheChains ==
    \A t \in DOMAIN tasks :
        LET d == tasks[t]
        IN  /\ d.kind = "deploy" /\ d.at = "done" /\ d.verdict # "host"
            /\ d.outcome # "rejected" /\ crashes = 0
            => \A b \in d.blocks :
                 d.blocks = {b} => d.verdict = ChainVerdict(d.source, d.params, b, d.outcome)

\* A call sees all that was seeded before it when the machine is in this process.
\* With a worker the copy is made once a block, and a call is sure only of what
\* was there when the block it is dispatched in was opened; no snapshot outlives
\* its block.
SeedsVisible ==
    \A t \in DOMAIN tasks :
        LET r == tasks[t]
        IN  r.leg = "run" /\ r.at # "waiting" /\ r.outcome # "rejected"
            => r.seen >= IF mode = "in-process" THEN r.called ELSE r.floor
===============================================================================
