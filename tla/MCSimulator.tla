------------------------------ MODULE MCSimulator ------------------------------
(***************************************************************************)
(* Small instances of the three machines of the simulator.  They share no  *)
(* state, so one run checks them side by side: part says which one a       *)
(* behaviour is about, and the others stay as they start.                  *)
(***************************************************************************)
EXTENDS Simulator, SimulatorEpoch, SimulatorSeeds

VARIABLE part

Never == 9

Source(bannedFrom, reads, policy, meta, init) ==
    [bannedFrom |-> bannedFrom, reads |-> reads, policy |-> policy, meta |-> meta, init |-> init]

\* One the chain takes; one banned from block 1 on, with no constructor; one
\* whose meta is missing; one whose permissions are wrong; one that throws.
Clean    == Source(Never, TRUE, TRUE, TRUE, TRUE)
Banned   == Source(1, TRUE, TRUE, TRUE, FALSE)
NoMeta   == Source(Never, TRUE, TRUE, FALSE, FALSE)
BadRows  == Source(Never, TRUE, FALSE, TRUE, TRUE)
Throwing == Source(Never, FALSE, TRUE, TRUE, TRUE)

AllSources == {Clean, Banned, NoMeta, BadRows, Throwing}

\* Two authors who await: one deploy of any source over two blocks, and two runs
\* with seeds, blocks and a crash between them.  Two who do not: three runs in
\* one block, and two with the block changing under them.
Judged  == Author(TRUE, AllSources, 1, 1, 0, 0)
Careful == Author(TRUE, {Clean}, 2, 1, 1, 1)
Hasty   == Author(FALSE, {Clean}, 3, 0, 0, 0)
Racing  == Author(FALSE, {Clean, Banned}, 2, 1, 0, 0)

AllAuthors == {Judged, Careful, Hasty, Racing}

\* The addresses of the two contracts.
MCAddressOf == [index \in {0, 1} |-> IF index = 0 THEN "C0" ELSE "C1"]
-------------------------------------------------------------------------------
RunsIdle  == author = Judged /\ mode = "in-process"
SeedsIdle == readNetwork = "testnet" /\ topic = "ledger"

SimInit ==
    /\ part \in {"runs", "epoch", "seeds"}
    /\ part = "runs" \/ RunsIdle
    /\ part = "seeds" \/ SeedsIdle
    /\ Init /\ EpochInit /\ SeedsInit

SimNext ==
    \/ part = "runs" /\ Next /\ UNCHANGED <<part, epochVars, seedVars>>
    \/ part = "epoch" /\ EpochNext /\ UNCHANGED <<part, vars, seedVars>>
    \/ part = "seeds" /\ SeedsNext /\ UNCHANGED <<part, vars, epochVars>>

SimSpec == SimInit /\ [][SimNext]_<<part, vars, epochVars, seedVars>>
-------------------------------------------------------------------------------
\* What an author seeds is what a contract reads: the cross-chain data, which goes
\* to the worker as the block's copy, and the rest, through the accessors
\* (world_state_setters.js, readonly-accessors.js, snapshot_channel.js).
SeedsReachTheContract == SeedsVisible /\ ReadsAreSeeded
===============================================================================
