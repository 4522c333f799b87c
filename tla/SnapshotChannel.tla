-------------------------- MODULE SnapshotChannel --------------------------
(***************************************************************************)
(* WorkerSnapshotChannel of process_executor/snapshot_channel.js, parent   *)
(* side: its fields as one record and its methods as operators on it.  The *)
(* cross-chain snapshot of a block is sent to the worker once; execute     *)
(* frames refer to it by token and are held until the worker has           *)
(* acknowledged that token.                                                *)
(***************************************************************************)
EXTENDS WorkerIPC

\* What the opts of a request look like to the channel:
\*   plain        no cross-chain snapshot, crosses IPC
\*   snap         a plain-data snapshot, crosses IPC
\*   badSnap      a snapshot object that structured cloning refuses
\*   badRest      no snapshot, and opts that cannot cross IPC
\*   snapBadRest  a good snapshot among opts that cannot cross IPC
AllOptKinds == {"plain", "snap", "badSnap", "badRest", "snapBadRest"}

hasSerializableCrossChainSnapshot(o) == o.kind \in {"snap", "badSnap", "snapBadRest"}
SnapshotCrosses(o) == o.kind # "badSnap"
RestCrosses(o) == o.kind \notin {"badRest", "snapBadRest"}

Channels == [set : BOOLEAN, token : Nat, snapshot : Nat,
             sent : BOOLEAN, acked : BOOLEAN, timer : BOOLEAN]

\* Mutant of workerSpawned: the acknowledgement of the last worker still counts.
workerSpawnedKeepsAck(ch) == [ch EXCEPT !.timer = FALSE]

\* workerSpawned(): a new worker holds no snapshot.
workerSpawned(ch) == [ch EXCEPT !.sent = FALSE, !.acked = FALSE, !.timer = FALSE]

\* workerLost() and close(): only the acknowledgement timer is dropped.
clearTimer(ch) == [ch EXCEPT !.timer = FALSE]

\* beginBlock(), endBlock() and the constructor: no snapshot chosen.
NoSnapshot == [set |-> FALSE, token |-> NoToken, snapshot |-> 0,
               sent |-> FALSE, acked |-> FALSE, timer |-> FALSE]

\* onMessage(): an acknowledgement counts only for the token in use.
onAck(ch, tok) ==
    IF ch.sent /\ tok = ch.token
    THEN [ch EXCEPT !.acked = TRUE, !.timer = FALSE] ELSE ch

\* hold(): the first entry of a block that has a snapshot chooses the block's.
\* One that cannot be sent is dropped again, as if it had not been chosen.
Chooses(ch, o, inBlk) ==
    ~ch.set /\ inBlk /\ hasSerializableCrossChainSnapshot(o) /\ SnapshotCrosses(o)

hold(ch, o, inBlk) == (ch.set /\ ~ch.acked) \/ Chooses(ch, o, inBlk)

\* The channel after hold() returned TRUE, and the frames it sent.
HeldChannel(ch, o, inBlk, tok) ==
    IF Chooses(ch, o, inBlk)
    THEN [set |-> TRUE, token |-> tok, snapshot |-> o.data,
          sent |-> TRUE, acked |-> FALSE, timer |-> TRUE]
    ELSE [ch EXCEPT !.sent = TRUE, !.timer = (ch.timer \/ ~ch.sent)]

HeldFrames(ch, o, inBlk, tok) ==
    IF ch.set /\ ch.sent THEN <<>>
    ELSE LET new == HeldChannel(ch, o, inBlk, tok)
         IN  <<Frame("snapshot", 0, new.token, new.snapshot)>>

\* reference(): the snapshot of opts is replaced by the block's token.
Referenced(ch, o) == ch.set /\ hasSerializableCrossChainSnapshot(o)

\* Whether child.send() of the execute frame succeeds on a live channel.
Crosses(ch, o) == RestCrosses(o) /\ (Referenced(ch, o) \/ SnapshotCrosses(o))

ExecuteFrame(ch, id, o) ==
    IF Referenced(ch, o) THEN Frame("execute", id, ch.token, 0)
                         ELSE Frame("execute", id, NoToken, o.data)

\* flush() rejects an entry it neither holds nor gets across.
Refused(ch, o, inBlk) == ~hold(ch, o, inBlk) /\ ~Crosses(ch, o)

=============================================================================
