-------------------------- MODULE ProcessExecutor --------------------------
(***************************************************************************)
(* The parent side, process-executor.js.  Every method and event handler   *)
(* of the class is one action: node runs it to its end before the next.    *)
(* The promise of each execute() call is an entry of outcome; the calls    *)
(* are numbered by _nextId.  Timers are modelled by whether they are       *)
(* armed; the watchdog of a request is armed while it is in pending.       *)
(***************************************************************************)
EXTENDS SnapshotChannel

CONSTANTS
    MaxRequests,            \* bound: calls of execute()
    MaxBlocks,              \* bound: calls of beginBlock()
    MaxSpawnFailures,       \* MAX_CONSECUTIVE_SPAWN_FAILURES
    OptKinds,               \* the kinds of opts callers pass
    CallerAwaits            \* callers settle a block's calls before they end it

ASSUME ExecutorAssumption ==
    /\ MaxRequests \in Nat \ {0}
    /\ MaxBlocks \in Nat
    /\ MaxSpawnFailures \in Nat \ {0}
    /\ OptKinds \subseteq AllOptKinds
    /\ CallerAwaits \in BOOLEAN

VARIABLES
    outcome,       \* outcome[id]: the promise execute() returned
    opts,          \* opts[id]: the opts of the call
    nextId,        \* _nextId
    queue,         \* _queue, as ids: accepted, not dispatched
    pending,       \* keys of _pending: dispatched, not settled
    child,         \* _child
    gen,           \* number of workers forked so far
    connected,     \* _child.connected
    sawReady,      \* _sawReady: the dispatch gate
    everReady,     \* _everReady
    readyTimer,    \* _readyTimer is armed
    failures,      \* _consecutiveSpawnFailures, saturated at the threshold
    broken,        \* _broken
    backoff,       \* the last recovery probe is less than the backoff ago
    inBlock,       \* _inBlock
    blockNo,       \* number of blocks begun; names the block's snapshot
    chan,          \* _snapshots
    nextTok,       \* the next fresh snapshot token
    shuttingDown   \* _shuttingDown

promiseVars == <<outcome, opts, nextId>>
slotVars    == <<child, gen, connected, sawReady, everReady, readyTimer>>
latchVars   == <<failures, broken, backoff>>
blockVars   == <<inBlock, blockNo>>
chanVars    == <<chan, nextTok>>
executorVars == <<promiseVars, queue, pending, slotVars, latchVars, blockVars,
                  chanVars, shuttingDown>>

NoChild == 0
Requests == 1..MaxRequests
\* "result", "terminated" and "watchdog" resolve the promise, the last two with
\* the clamp of hostTerminatedResult (after a death the contract is blamed for,
\* and after a watchdog timeout); "hostfault" rejects it with a HostFaultError.
Settled == {"result", "terminated", "watchdog", "hostfault"}
Outcomes == {"none", "waiting"} \cup Settled
NoOpts == [kind |-> "plain", data |-> 0]

Settle(oc, ids, v) == [i \in Requests |-> IF i \in ids THEN v ELSE oc[i]]
Entries(q) == {q[i] : i \in 1..Len(q)}
Quiet == \A i \in Requests : outcome[i] # "waiting"

(***************************************************************************)
(* send() to the current worker: the frames reach a live process in order, *)
(* and vanish if the process is already gone.                              *)
(***************************************************************************)
SendFrames(fs) ==
    inbox' = IF child # NoChild /\ connected /\ Alive(child)
             THEN [inbox EXCEPT ![child] = @ \o fs] ELSE inbox

Kill(w) == killed' = [killed EXCEPT ![w] = TRUE]

(***************************************************************************)
(* flush(): skip the entries that cannot cross IPC, rejecting them, then   *)
(* hold or dispatch the next one.  q, pd, ch, oc and ready are the queue,  *)
(* pending, channel, promises and dispatch gate at the call.               *)
(***************************************************************************)
flush(q, pd, ch, oc, ready) ==
    IF pd # {} \/ child = NoChild \/ ~ready \/ ~connected
    THEN /\ queue' = q /\ pending' = pd /\ chan' = ch /\ outcome' = oc
         /\ UNCHANGED <<inbox, nextTok>>
    ELSE \E k \in 0..Len(q) :
         LET rest  == SubSeq(q, k + 1, Len(q))
             after == Settle(oc, {q[j] : j \in 1..k}, "hostfault")
             id    == q[k + 1]
             o     == opts'[id]
         IN  /\ \A j \in 1..k : Refused(ch, opts'[q[j]], inBlock)
             /\ outcome' = after
             /\ \/ /\ k = Len(q)
                   /\ queue' = rest /\ pending' = pd /\ chan' = ch
                   /\ UNCHANGED <<inbox, nextTok>>
                \/ /\ k < Len(q) /\ hold(ch, o, inBlock)
                   /\ queue' = rest /\ pending' = pd
                   /\ chan' = HeldChannel(ch, o, inBlock, nextTok)
                   /\ SendFrames(HeldFrames(ch, o, inBlock, nextTok))
                   /\ nextTok' = IF Chooses(ch, o, inBlock) THEN nextTok + 1 ELSE nextTok
                \/ /\ k < Len(q) /\ ~hold(ch, o, inBlock) /\ Crosses(ch, o)
                   /\ queue' = Tail(rest) /\ pending' = {id} /\ chan' = ch
                   /\ SendFrames(<<ExecuteFrame(ch, id, o)>>)
                   /\ UNCHANGED nextTok

(***************************************************************************)
(* spawn() and afterWorkerLost().  A fork either succeeds, throws at once  *)
(* (which counts and tries again), or fails later like a worker that dies  *)
(* before ready.  ch, q and oc are the channel, queue and promises at the  *)
(* call; f is _consecutiveSpawnFailures.                                   *)
(***************************************************************************)
Forked(f, ch, q, oc) ==
    /\ gen < MaxWorkers
    /\ gen' = gen + 1 /\ child' = gen + 1 /\ connected' = TRUE
    /\ sawReady' = FALSE /\ everReady' = FALSE /\ readyTimer' = TRUE
    /\ wstate' = [wstate EXCEPT ![gen + 1] = "starting"]
    /\ inbox' = [inbox EXCEPT ![gen + 1] =
                   IF inBlock THEN <<Frame("init", 0, 0, 0), Frame("beginBlock", 0, 0, 0)>>
                              ELSE <<Frame("init", 0, 0, 0)>>]
    /\ failures' = f /\ broken' = FALSE
    /\ chan' = workerSpawned(ch) /\ queue' = q /\ outcome' = oc

\* Mutant of Latched: the queued entries are forgotten, not rejected.
LatchedForgets(ch, q, oc) ==
    /\ child' = NoChild /\ connected' = FALSE
    /\ sawReady' = FALSE /\ everReady' = FALSE /\ readyTimer' = FALSE
    /\ failures' = MaxSpawnFailures /\ broken' = TRUE
    /\ chan' = workerSpawned(ch) /\ queue' = <<>>
    /\ outcome' = oc
    /\ UNCHANGED <<gen, inbox, wstate>>

\* The broken latch: every queued entry is rejected.
Latched(ch, q, oc) ==
    /\ child' = NoChild /\ connected' = FALSE
    /\ sawReady' = FALSE /\ everReady' = FALSE /\ readyTimer' = FALSE
    /\ failures' = MaxSpawnFailures /\ broken' = TRUE
    /\ chan' = workerSpawned(ch) /\ queue' = <<>>
    /\ outcome' = Settle(oc, Entries(q), "hostfault")
    /\ UNCHANGED <<gen, inbox, wstate>>

\* throws forks in a row throw before one succeeds or the latch trips.
afterWorkerLost(f, ch, q, oc) ==
    \E throws \in 0..(MaxSpawnFailures - f) :
        IF f + throws >= MaxSpawnFailures THEN Latched(ch, q, oc)
                                          ELSE Forked(f + throws, ch, q, oc)

\* Mutant of onExit: the dispatched call is queued again for the next worker.
onExitRetries(how) ==
    LET f == IF everReady \/ failures = MaxSpawnFailures THEN failures ELSE failures + 1
        again == IF pending = {} THEN <<>> ELSE <<CHOOSE i \in pending : TRUE>>
    IN  /\ pending' = {}
        /\ afterWorkerLost(f, clearTimer(chan), again \o queue, outcome)
        /\ UNCHANGED <<opts, nextId, backoff, blockVars, nextTok, shuttingDown>>

\* onExit() of the current worker, and onGone() of the ready timer.
onExit(how) ==
    LET verdict == IF how = "self" THEN "terminated" ELSE "hostfault"
        f == IF everReady \/ failures = MaxSpawnFailures THEN failures ELSE failures + 1
    IN  /\ pending' = {}
        /\ afterWorkerLost(f, clearTimer(chan), queue, Settle(outcome, pending, verdict))
        /\ UNCHANGED <<opts, nextId, backoff, blockVars, nextTok, shuttingDown>>

(***************************************************************************)
(* The constructor forks the first worker; forks may throw here too.       *)
(***************************************************************************)
ExecutorInit ==
    /\ outcome = [i \in Requests |-> "none"]
    /\ opts = [i \in Requests |-> NoOpts]
    /\ nextId = 1
    /\ queue = <<>> /\ pending = {}
    /\ sawReady = FALSE /\ everReady = FALSE
    /\ backoff = FALSE
    /\ inBlock = FALSE /\ blockNo = 0
    /\ chan = NoSnapshot /\ nextTok = 1
    /\ shuttingDown = FALSE
    /\ failures \in 0..MaxSpawnFailures
    /\ broken = (failures = MaxSpawnFailures)
    /\ readyTimer = ~broken /\ connected = ~broken
    /\ gen = IF broken THEN 0 ELSE 1
    /\ child = IF broken THEN NoChild ELSE 1
    /\ wstate = [w \in Workers |-> IF w = child THEN "starting" ELSE "absent"]
    /\ inbox = [w \in Workers |-> IF w = child THEN <<Frame("init", 0, 0, 0)>> ELSE <<>>]

(***************************************************************************)
(* Calls: execute(), beginBlock(), endBlock(), shutdown().  Every call of  *)
(* execute() takes a number, also one that is rejected before the code     *)
(* gives it an id.  endBlock() is only called inside a block, which bounds *)
(* its calls by MaxBlocks.                                                 *)
(***************************************************************************)
NewCall(kind) ==
    /\ nextId <= MaxRequests
    /\ nextId' = nextId + 1
    /\ opts' = [opts EXCEPT ![nextId] =
                  [kind |-> kind, data |-> IF hasSerializableCrossChainSnapshot([kind |-> kind])
                                           THEN blockNo ELSE 0]]

\* Rejected at once: shut down, or broken within the backoff window.
executeRejected(kind) ==
    /\ NewCall(kind)
    /\ shuttingDown \/ (broken /\ backoff)
    /\ outcome' = [outcome EXCEPT ![nextId] = "hostfault"]
    /\ UNCHANGED <<queue, pending, slotVars, latchVars, blockVars, chanVars,
                   shuttingDown, ipcVars>>

\* Broken, past the backoff: probe with one spawn.  The failure count is not
\* reset, so a fork that throws latches again and the call is rejected.
executeProbe(kind) ==
    /\ NewCall(kind)
    /\ ~shuttingDown /\ broken /\ ~backoff
    /\ backoff' = TRUE
    /\ \/ Forked(failures, chan, Append(queue, nextId),
                 [outcome EXCEPT ![nextId] = "waiting"])
       \/ Latched(chan, queue, [outcome EXCEPT ![nextId] = "hostfault"])
    /\ UNCHANGED <<pending, blockVars, nextTok, shuttingDown, outbox, killed>>

\* Mutant of executeQueued: the newest call is served first.
executeLifo(kind) ==
    /\ NewCall(kind)
    /\ ~shuttingDown /\ ~broken
    /\ flush(<<nextId>> \o queue, pending, chan,
             [outcome EXCEPT ![nextId] = "waiting"], sawReady)
    /\ UNCHANGED <<slotVars, latchVars, blockVars, shuttingDown, outbox, wstate, killed>>

executeQueued(kind) ==
    /\ NewCall(kind)
    /\ ~shuttingDown /\ ~broken
    /\ flush(Append(queue, nextId), pending, chan,
             [outcome EXCEPT ![nextId] = "waiting"], sawReady)
    /\ UNCHANGED <<slotVars, latchVars, blockVars, shuttingDown, outbox, wstate, killed>>

\* Mutant of beginBlock: the snapshot of the last block stays chosen.
beginBlockKeepsSnapshot ==
    /\ blockNo < MaxBlocks
    /\ CallerAwaits => Quiet
    /\ inBlock' = TRUE /\ blockNo' = blockNo + 1
    /\ SendFrames(<<Frame("beginBlock", 0, 0, 0)>>)
    /\ UNCHANGED <<promiseVars, queue, pending, slotVars, latchVars, chanVars,
                   shuttingDown, outbox, wstate, killed>>

beginBlock ==
    /\ blockNo < MaxBlocks
    /\ CallerAwaits => Quiet
    /\ inBlock' = TRUE /\ blockNo' = blockNo + 1
    /\ chan' = NoSnapshot
    /\ SendFrames(<<Frame("beginBlock", 0, 0, 0)>>)
    /\ UNCHANGED <<promiseVars, queue, pending, slotVars, latchVars, nextTok,
                   shuttingDown, outbox, wstate, killed>>

endBlock ==
    /\ inBlock
    /\ CallerAwaits => Quiet
    /\ inBlock' = FALSE
    /\ chan' = NoSnapshot
    /\ SendFrames(<<Frame("endBlock", 0, 0, 0)>>)
    /\ UNCHANGED <<promiseVars, queue, pending, slotVars, latchVars, blockNo, nextTok,
                   shuttingDown, outbox, wstate, killed>>

shutdown ==
    /\ ~shuttingDown
    /\ shuttingDown' = TRUE
    /\ readyTimer' = FALSE
    /\ chan' = clearTimer(chan)
    /\ outcome' = Settle(outcome, pending \cup Entries(queue), "hostfault")
    /\ pending' = {} /\ queue' = <<>>
    /\ child' = NoChild /\ connected' = FALSE
    /\ IF child # NoChild THEN Kill(child) ELSE UNCHANGED killed
    /\ UNCHANGED <<opts, nextId, gen, sawReady, everReady, latchVars, blockVars,
                   nextTok, inbox, outbox, wstate>>

(***************************************************************************)
(* Frames from the workers: onMessage().                                   *)
(***************************************************************************)
Incoming(w) ==
    /\ outbox[w] # <<>>
    /\ outbox' = [outbox EXCEPT ![w] = Tail(@)]

From(w, type) == Incoming(w) /\ w = child /\ Head(outbox[w]).type = type

\* A frame of a worker already replaced or shut down.
onStaleFrame(w) ==
    /\ Incoming(w) /\ w # child
    /\ UNCHANGED <<executorVars, inbox, wstate, killed>>

onSnapshotAck(w) ==
    /\ From(w, "snapshotAck")
    /\ UNCHANGED opts
    /\ flush(queue, pending, onAck(chan, Head(outbox[w]).tok), outcome, sawReady)
    /\ UNCHANGED <<nextId, slotVars, latchVars, blockVars, shuttingDown, wstate, killed>>

\* Mutant of onReady: a repeated ready opens dispatch again.
onAnyReady(w) ==
    /\ From(w, "ready")
    /\ sawReady' = TRUE /\ everReady' = TRUE /\ readyTimer' = FALSE
    /\ failures' = 0
    /\ UNCHANGED opts
    /\ flush(queue, pending, chan, outcome, TRUE)
    /\ UNCHANGED <<nextId, child, gen, connected, broken, backoff, blockVars,
                   shuttingDown, wstate, killed>>

onReady(w) ==
    /\ From(w, "ready") /\ ~everReady
    /\ sawReady' = TRUE /\ everReady' = TRUE /\ readyTimer' = FALSE
    /\ failures' = 0
    /\ UNCHANGED opts
    /\ flush(queue, pending, chan, outcome, TRUE)
    /\ UNCHANGED <<nextId, child, gen, connected, broken, backoff, blockVars,
                   shuttingDown, wstate, killed>>

onReadyAgain(w) ==
    /\ From(w, "ready") /\ everReady
    /\ UNCHANGED <<executorVars, inbox, wstate, killed>>

\* A reply that names no dispatch in flight: late, repeated or invented.
onUnknownReply(w) ==
    /\ From(w, "result") \/ From(w, "hostfault")
    /\ Head(outbox[w]).id \notin pending
    /\ UNCHANGED <<executorVars, inbox, wstate, killed>>

\* Mutant of replyFault: any reply that names the id in flight is believed.
replyTrusted(r) == FALSE

\* replyFault(): the token is not the one of the dispatch in flight.
replyFault(r) == r.tok # newDispatchToken(r.id)

onBadReply(w) ==
    /\ From(w, "result") \/ From(w, "hostfault")
    /\ LET r == Head(outbox[w]) IN
         /\ r.id \in pending /\ replyFault(r)
         /\ pending' = pending \ {r.id}
         /\ outcome' = Settle(outcome, {r.id}, "hostfault")
    /\ Kill(child)
    /\ sawReady' = FALSE
    /\ UNCHANGED <<opts, nextId, queue, child, gen, connected, everReady, readyTimer,
                   latchVars, blockVars, chanVars, shuttingDown, inbox, wstate>>

onReply(w) ==
    /\ From(w, "result") \/ From(w, "hostfault")
    /\ UNCHANGED opts
    /\ LET r == Head(outbox[w]) IN
         /\ r.id \in pending /\ ~replyFault(r)
         /\ flush(queue, pending \ {r.id}, chan, Settle(outcome, {r.id}, r.type), sawReady)
    /\ UNCHANGED <<nextId, slotVars, latchVars, blockVars, shuttingDown, wstate, killed>>

(***************************************************************************)
(* Process events and timers.  A timer fires only on a worker that may be  *)
(* slow or stuck (Flaky).                                                  *)
(***************************************************************************)
onChildExit ==
    /\ child # NoChild /\ wstate[child] \in Deaths
    /\ onExit(wstate[child])
    /\ UNCHANGED <<outbox, killed>>

\* The parent reads end-of-file on the channel before it learns of the exit.
onDisconnect ==
    /\ child # NoChild /\ connected
    /\ wstate[child] \in Deaths /\ outbox[child] = <<>>
    /\ connected' = FALSE
    /\ UNCHANGED <<promiseVars, queue, pending, child, gen, sawReady, everReady,
                   readyTimer, latchVars, blockVars, chanVars, shuttingDown, ipcVars>>

onReadyTimeout ==
    /\ child # NoChild /\ child \in Flaky /\ readyTimer /\ ~everReady
    /\ Kill(child)
    /\ onExit("external")
    /\ UNCHANGED outbox

\* Mutant of onAckTimeout: closes dispatch and leaves the worker running.
onAckTimeoutNoKill ==
    /\ child # NoChild /\ child \in Flaky
    /\ chan.timer /\ chan.sent /\ ~chan.acked
    /\ chan' = clearTimer(chan)
    /\ sawReady' = FALSE
    /\ UNCHANGED <<promiseVars, queue, pending, child, gen, connected, everReady,
                   readyTimer, latchVars, blockVars, nextTok, shuttingDown, ipcVars>>

onAckTimeout ==
    /\ child # NoChild /\ child \in Flaky
    /\ chan.timer /\ chan.sent /\ ~chan.acked
    /\ chan' = clearTimer(chan)
    /\ Kill(child)
    /\ sawReady' = FALSE
    /\ UNCHANGED <<promiseVars, queue, pending, child, gen, connected, everReady,
                   readyTimer, latchVars, blockVars, nextTok, shuttingDown,
                   inbox, outbox, wstate>>

onWatchdog(id) ==
    /\ id \in pending /\ child \in Flaky
    /\ pending' = pending \ {id}
    /\ outcome' = Settle(outcome, {id}, "watchdog")
    /\ Kill(child)
    /\ sawReady' = FALSE
    /\ UNCHANGED <<opts, nextId, queue, child, gen, connected, everReady, readyTimer,
                   latchVars, blockVars, chanVars, shuttingDown, inbox, outbox, wstate>>

\* BROKEN_RESPAWN_BACKOFF_MS pass.
BackoffElapses ==
    /\ backoff /\ backoff' = FALSE
    /\ UNCHANGED <<promiseVars, queue, pending, slotVars, failures, broken, blockVars,
                   chanVars, shuttingDown, ipcVars>>

=============================================================================
