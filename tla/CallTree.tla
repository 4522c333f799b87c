------------------------------- MODULE CallTree -------------------------------
(***************************************************************************)
(* The ids of attestation requests and cross-chain calls.  The host runs   *)
(* the root actions of its transactions and, after a run commits, the      *)
(* EXECUTE emissions it queued (gateway_emit/same_chain.js); every run     *)
(* derives the ids of its ATTEST and XCALL emissions from the position the *)
(* emission will have (gateway.js, gateway-emit.js) and the context that   *)
(* index/runtime/gateway_options.js threads in.                            *)
(*                                                                         *)
(* A hashed preimage is the tuple of its fields: ':' occurs in none.       *)
(***************************************************************************)
EXTENDS Integers, Sequences, FiniteSets

CONSTANTS
    Networks, Chains, Txs, Vouts, Contracts,
    Positions,          \* positions of BATCH subcommands
    MAX_CALL_DEPTH,
    MaxTreeEmissions,   \* limits.maxEmissions
    MaxRoots,           \* bound: root actions the host runs
    MaxQueued           \* bound: emissions of all runs

ASSUME PositionAssumption == Positions \subseteq Nat

VARIABLES
    treeRun,            \* the run under way, its emissions and its ids
    nested,             \* EXECUTE emissions of committed runs, in order
    ids,                \* ids that committed, each with the emission it names
    roots, queued       \* root actions and emissions left to the bounds

treeVars == <<treeRun, nested, ids, roots, queued>>

\* What the host threads as rootActionIndex: the output's index, as a number or
\* a numeric string, or the composite "<output>.<position>" of a subcommand.
RootForms == {[form |-> f, vout |-> v, pos |-> -1] : f \in {"number", "text"}, v \in Vouts}
               \cup {[form |-> "composite", vout |-> v, pos |-> p] : v \in Vouts, p \in Positions}

\* Mutant: the composite is read as a number, which drops a trailing zero.
FoldedRootDiscriminator(r) ==
    IF r.form = "composite" /\ r.pos # 0
    THEN <<r.vout, IF r.pos % 10 = 0 THEN r.pos \div 10 ELSE r.pos>>
    ELSE <<r.vout>>

normalizeRootDiscriminator(r) ==
    IF r.form = "composite" THEN <<r.vout, r.pos>> ELSE <<r.vout>>

buildRequestIdPreimage(run, index) ==
    <<run.tx, normalizeRootDiscriminator(run.root), run.callPath, run.contract, index>>

buildCallIdPreimage(run, index, target) ==
    <<run.network, run.chain, run.tx, normalizeRootDiscriminator(run.root), run.contract,
      run.callPath, index, target>>

\* The emission an id names, whatever form the host wrote the root in.
Origin(run, index, target) ==
    [network |-> run.network, chain |-> run.chain, tx |-> run.tx,
     root |-> <<run.root.vout, run.root.pos>>, path |-> run.callPath,
     contract |-> run.contract, index |-> index, target |-> target]
-------------------------------------------------------------------------------
NoRun == [live |-> FALSE]
Live == treeRun.live
EmissionIndex == treeRun.emitted
HasRoom == EmissionIndex < MaxTreeEmissions /\ queued > 0

\* calls are the runs that the EXECUTE emissions of the queue ask for, in order.
NewRun(network, chain, tx, root, path, contract) ==
    [live |-> TRUE, network |-> network, chain |-> chain, tx |-> tx, root |-> root,
     callPath |-> path, contract |-> contract, emitted |-> 0, calls |-> <<>>, ids |-> {}]

Queues(calls, new) ==
    /\ treeRun' = [treeRun EXCEPT !.emitted = @ + 1, !.calls = @ \o calls, !.ids = @ \cup new]
    /\ queued' = queued - 1

\* The host runs a root action; the call path of a root is ''.
StartRoot(network, chain, tx, root, contract) ==
    /\ ~Live /\ nested = <<>> /\ roots > 0
    /\ treeRun' = NewRun(network, chain, tx, root, <<>>, contract)
    /\ roots' = roots - 1
    /\ UNCHANGED <<nested, ids, queued>>

EmitAction ==
    /\ Live /\ HasRoom
    /\ Queues(<<>>, {})
    /\ UNCHANGED <<nested, ids, roots>>

\* emit.execute: the depth gate, then the queue.  The path of the run it asks for
\* ends in the position of the emission.
EmitExecute(contract) ==
    /\ Live /\ HasRoom
    /\ Len(treeRun.callPath) + 1 <= MAX_CALL_DEPTH
    /\ Queues(<<NewRun(treeRun.network, treeRun.chain, treeRun.tx, treeRun.root,
                       Append(treeRun.callPath, EmissionIndex), contract)>>, {})
    /\ UNCHANGED <<nested, ids, roots>>

\* attestation.request (queueAttestRequest): the id comes before the push.
EmitRequest ==
    /\ Live /\ HasRoom
    /\ Queues(<<>>,
              {[kind |-> "ATTEST", id |-> buildRequestIdPreimage(treeRun, EmissionIndex),
                origin |-> Origin(treeRun, EmissionIndex, treeRun.chain)]})
    /\ UNCHANGED <<nested, ids, roots>>

\* emit.crossExecute (deriveXcallCallId): the target is another chain.
EmitCrossExecute(target) ==
    /\ Live /\ HasRoom
    /\ target # treeRun.chain
    /\ Queues(<<>>,
              {[kind |-> "XCALL", id |-> buildCallIdPreimage(treeRun, EmissionIndex, target),
                origin |-> Origin(treeRun, EmissionIndex, target)]})
    /\ UNCHANGED <<nested, ids, roots>>

\* The run commits: the host takes its emissions.
Commit ==
    /\ Live
    /\ ids' = ids \cup treeRun.ids
    /\ nested' = nested \o treeRun.calls
    /\ treeRun' = NoRun
    /\ UNCHANGED <<roots, queued>>

\* The run fails: its emissions never leave the VM.
Fail ==
    /\ Live
    /\ treeRun' = NoRun
    /\ UNCHANGED <<nested, ids, roots, queued>>

StartNested ==
    /\ ~Live /\ nested # <<>>
    /\ treeRun' = Head(nested)
    /\ nested' = Tail(nested)
    /\ UNCHANGED <<ids, roots, queued>>

TreeInit == treeRun = NoRun /\ nested = <<>> /\ ids = {} /\ roots = MaxRoots /\ queued = MaxQueued

TreeNext ==
    \/ \E n \in Networks, c \in Chains, tx \in Txs, r \in RootForms, k \in Contracts :
          StartRoot(n, c, tx, r, k)
    \/ EmitAction \/ EmitRequest
    \/ \E k \in Contracts : EmitExecute(k)
    \/ \E c \in Chains : EmitCrossExecute(c)
    \/ Commit \/ Fail \/ StartNested

TreeSpec == TreeInit /\ [][TreeNext]_treeVars
-------------------------------------------------------------------------------
\* An id names one emission, on whatever node and in whatever form the root was
\* written: a cross-chain call's among all networks and chains ("a call must
\* never collide or replay across chains/networks", gateway-emit.js), a
\* request's among those of its chain.  Nested runs of one contract, the roots
\* of a BATCH and runs repeated after a reorganisation are the hard cases.
IdsNameOneEmission ==
    \A a, b \in ids :
        /\ a.origin = b.origin /\ a.kind = b.kind => a.id = b.id
        /\ a.id = b.id /\ (a.kind = "ATTEST" =>
              a.origin.network = b.origin.network /\ a.origin.chain = b.origin.chain)
           => a.origin = b.origin
===============================================================================
