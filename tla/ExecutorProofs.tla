--------------------------- MODULE ExecutorProofs ---------------------------
(***************************************************************************)
(* Proofs about ExecutorSystem: no promise is lost, for any number of      *)
(* calls, workers, blocks and spawn failures.                              *)
(***************************************************************************)
EXTENDS ExecutorSystem, TLAPS, SequenceTheorems

\* The types of a queue, a set of dispatched ids and the promises.
Typed(q, pd, oc) ==
    /\ q \in Seq(Requests)
    /\ pd \subseteq Requests
    /\ oc \in [Requests -> Outcomes]

\* Settling promises keeps their type.
LEMMA SettleType ==
    ASSUME NEW oc \in [Requests -> Outcomes], NEW S, NEW v \in Outcomes
    PROVE  Settle(oc, S, v) \in [Requests -> Outcomes]
BY DEF Settle

\* Dropping the first k entries of a queue of increasing ids.
Increasing(q) == \A i, j \in 1..Len(q) : i < j => q[i] < q[j]

\* The rest of a queue that is in call order is in call order and holds what was not cut.
LEMMA Cut ==
    ASSUME NEW q \in Seq(Requests), Increasing(q), NEW k \in 0..Len(q)
    PROVE  /\ SubSeq(q, k + 1, Len(q)) \in Seq(Requests)
           /\ Increasing(SubSeq(q, k + 1, Len(q)))
           /\ Entries(SubSeq(q, k + 1, Len(q))) = Entries(q) \ {q[j] : j \in 1..k}
<1> DEFINE r == SubSeq(q, k + 1, Len(q))
<1>1. Len(q) \in Nat /\ k \in Nat /\ k <= Len(q)
  OBVIOUS
<1>2. \A i \in 1..Len(q) : q[i] \in Requests /\ q[i] \in Nat
  BY ExecutorAssumption DEF Requests
<1>3. /\ r \in Seq(Requests)
      /\ Len(r) = Len(q) - k
      /\ \A i \in 1..Len(r) : r[i] = q[k + i]
  BY <1>1, SubSeqProperties
<1> HIDE DEF r
<1>4. Increasing(r)
  <2> SUFFICES ASSUME NEW i \in 1..Len(r), NEW j \in 1..Len(r), i < j
               PROVE  r[i] < r[j]
    BY DEF Increasing
  <2>1. k + i \in 1..Len(q) /\ k + j \in 1..Len(q) /\ k + i < k + j
    BY <1>1, <1>3
  <2>2. q[k + i] < q[k + j]
    BY <2>1 DEF Increasing
  <2> QED BY <2>2, <1>3
<1>5. ASSUME NEW x \in Entries(r)
      PROVE  x \in Entries(q) /\ x \notin {q[j] : j \in 1..k}
  <2>1. PICK i \in 1..Len(r) : x = r[i]
    BY DEF Entries
  <2>2. k + i \in 1..Len(q) /\ x = q[k + i]
    BY <2>1, <1>1, <1>3
  <2>3. ASSUME NEW j \in 1..k PROVE x # q[j]
    <3>1. j \in 1..Len(q) /\ j < k + i
      BY <1>1, <1>3
    <3>2. q[j] < q[k + i]
      BY <3>1, <2>2 DEF Increasing
    <3> QED BY <3>1, <3>2, <2>2, <1>2
  <2> QED BY <2>2, <2>3 DEF Entries
<1>6. ASSUME NEW x \in Entries(q), x \notin {q[j] : j \in 1..k}
      PROVE  x \in Entries(r)
  <2>1. PICK i \in 1..Len(q) : x = q[i]
    BY DEF Entries
  <2>2. i > k
    BY <2>1, <1>1, <1>6
  <2>3. i - k \in 1..Len(r) /\ r[i - k] = x
    BY <2>1, <2>2, <1>1, <1>3
  <2> QED BY <2>3 DEF Entries
<1>7. Entries(r) = Entries(q) \ {q[j] : j \in 1..k}
  BY <1>5, <1>6
<1> QED BY <1>3, <1>4, <1>7 DEF r

\* Taking one more entry off the rest of a queue.
LEMMA TailOfCut ==
    ASSUME NEW q \in Seq(Requests), NEW k \in 0..Len(q), k < Len(q)
    PROVE  Tail(SubSeq(q, k + 1, Len(q))) = SubSeq(q, (k + 1) + 1, Len(q))
<1>1. k + 1 \in 1..Len(q) /\ Len(q) \in (k + 1)..Len(q)
  OBVIOUS
<1> QED BY <1>1, HeadTailOfSubSeq

\* What flush() does to the promises: entries it skips are rejected, one entry
\* may move from the queue to pending, nothing else changes.
LEMMA FlushTracked ==
    ASSUME NEW STATE q, NEW STATE pd, NEW STATE ch, NEW STATE oc, NEW STATE ready,
           Typed(q, pd, oc), Tracked(q, pd, oc),
           flush(q, pd, ch, oc, ready)
    PROVE  /\ Typed(queue', pending', outcome')
           /\ Tracked(queue', pending', outcome')
           /\ \A i \in Requests : oc[i] # "waiting" => outcome'[i] = oc[i]
<1>1. CASE pd # {} \/ child = NoChild \/ ~ready \/ ~connected
  BY <1>1 DEF flush, Typed, Tracked
<1>2. CASE ~(pd # {} \/ child = NoChild \/ ~ready \/ ~connected)
  <2>1. PICK k \in 0..Len(q) :
          /\ outcome' = Settle(oc, {q[j] : j \in 1..k}, "hostfault")
          /\ \/ queue' = SubSeq(q, k + 1, Len(q)) /\ pending' = pd
             \/ /\ k < Len(q)
                /\ queue' = Tail(SubSeq(q, k + 1, Len(q))) /\ pending' = {q[k + 1]}
    BY <1>2, Zenon DEF flush
  <2>2. q \in Seq(Requests) /\ Increasing(q) /\ pd = {}
    BY <1>2 DEF Typed, Tracked, Increasing
  <2>3. outcome' \in [Requests -> Outcomes]
    BY <2>1, SettleType DEF Typed, Outcomes, Settled
  <2>4. \A i \in Requests : oc[i] = "waiting" <=> i \in Entries(q)
    BY <2>2 DEF Tracked
  <2>5. \A i \in Requests :
          outcome'[i] = IF i \in {q[j] : j \in 1..k} THEN "hostfault" ELSE oc[i]
    BY <2>1 DEF Settle
  <2>6. {q[j] : j \in 1..k} \subseteq Entries(q)
    BY <2>2 DEF Entries
  <2>7. CASE queue' = SubSeq(q, k + 1, Len(q)) /\ pending' = pd
    <3>1. /\ queue' \in Seq(Requests) /\ Increasing(queue')
          /\ Entries(queue') = Entries(q) \ {q[j] : j \in 1..k}
      BY <2>2, <2>7, Cut
    <3> QED
      BY <3>1, <2>2, <2>3, <2>4, <2>5, <2>6, <2>7 DEF Typed, Tracked, Increasing
  <2>8. CASE /\ k < Len(q)
             /\ queue' = Tail(SubSeq(q, k + 1, Len(q))) /\ pending' = {q[k + 1]}
    <3>1. k + 1 \in 0..Len(q) /\ k + 1 \in 1..Len(q)
      BY <2>2, <2>8
    <3>2. queue' = SubSeq(q, (k + 1) + 1, Len(q))
      BY <2>2, <2>8, TailOfCut
    <3>3. /\ queue' \in Seq(Requests) /\ Increasing(queue')
          /\ Entries(queue') = Entries(q) \ {q[j] : j \in 1..(k + 1)}
      BY <2>2, <3>1, <3>2, Cut
    <3>4. q[k + 1] \in Requests /\ q[k + 1] \in Entries(q)
      BY <2>2, <3>1 DEF Entries
    <3>5. {q[j] : j \in 1..(k + 1)} = {q[j] : j \in 1..k} \cup {q[k + 1]}
      BY <2>2
    <3>6. q[k + 1] \notin {q[j] : j \in 1..k}
      <4> SUFFICES ASSUME NEW j \in 1..k PROVE q[k + 1] # q[j]
        OBVIOUS
      <4>1. j \in 1..Len(q) /\ j < k + 1
        BY <2>2, <3>1
      <4>2. q[j] < q[k + 1]
        BY <4>1, <3>1, <2>2 DEF Increasing
      <4>3. q[j] \in Nat /\ q[k + 1] \in Nat
        BY <4>1, <3>1, <2>2, ExecutorAssumption DEF Requests
      <4> QED BY <4>2, <4>3
    <3> QED
      BY <3>3, <3>4, <3>5, <3>6, <2>2, <2>3, <2>4, <2>5, <2>6, <2>8
         DEF Typed, Tracked, Increasing
  <2> QED BY <2>1, <2>7, <2>8
<1> QED BY <1>1, <1>2

\* flush() leaves the channel and the token counter well typed.
LEMMA FlushTypes ==
    ASSUME NEW STATE q, NEW STATE pd, NEW STATE ch, NEW STATE oc, NEW STATE ready,
           q \in Seq(Requests), ch \in Channels, nextTok \in Nat,
           opts' \in [Requests -> [kind : AllOptKinds, data : Nat]],
           flush(q, pd, ch, oc, ready)
    PROVE  chan' \in Channels /\ nextTok' \in Nat
<1>1. CASE chan' = ch /\ nextTok' = nextTok
  BY <1>1
<1>2. ASSUME NEW k \in 0..Len(q), k < Len(q),
             LET o == opts'[q[k + 1]]
             IN  /\ chan' = HeldChannel(ch, o, inBlock, nextTok)
                 /\ nextTok' = IF Chooses(ch, o, inBlock) THEN nextTok + 1 ELSE nextTok
      PROVE  chan' \in Channels /\ nextTok' \in Nat
  <2> DEFINE o == opts'[q[k + 1]]
  <2>1. q[k + 1] \in Requests
    BY <1>2
  <2>2. o.data \in Nat
    BY <2>1
  <2> HIDE DEF o
  <2>3. HeldChannel(ch, o, inBlock, nextTok) \in Channels
    BY <2>2 DEF HeldChannel, Channels
  <2> QED BY <1>2, <2>3 DEF o
<1> QED BY <1>1, <1>2, Zenon DEF flush

\* Settling waiting calls that leave pending keeps the rest tracked.
LEMMA SettleTracked ==
    ASSUME Typed(queue, pending, outcome), Tracked(queue, pending, outcome),
           NEW S \in SUBSET pending, NEW v \in Settled
    PROVE  /\ Typed(queue, pending \ S, Settle(outcome, S, v))
           /\ Tracked(queue, pending \ S, Settle(outcome, S, v))
           /\ \A i \in Requests :
                outcome[i] # "waiting" => Settle(outcome, S, v)[i] = outcome[i]
<1>1. v \in Outcomes /\ v # "waiting"
  BY DEF Settled, Outcomes
<1>2. \A i \in Requests : Settle(outcome, S, v)[i] = IF i \in S THEN v ELSE outcome[i]
  BY DEF Settle
<1>3. Settle(outcome, S, v) \in [Requests -> Outcomes]
  BY <1>1, SettleType DEF Typed
<1> QED BY <1>1, <1>2, <1>3 DEF Typed, Tracked

\* A new call at the end of the queue.
LEMMA AppendTracked ==
    ASSUME NEW q, NEW pd, NEW oc, NEW n \in Requests,
           Typed(q, pd, oc), Tracked(q, pd, oc),
           \A i \in Requests : i >= n => oc[i] = "none"
    PROVE  /\ Typed(Append(q, n), pd, [oc EXCEPT ![n] = "waiting"])
           /\ Tracked(Append(q, n), pd, [oc EXCEPT ![n] = "waiting"])
<1> DEFINE a == Append(q, n)
<1>1. /\ a \in Seq(Requests) /\ Len(q) \in Nat /\ Len(a) = Len(q) + 1
      /\ \A i \in 1..Len(q) : a[i] = q[i] /\ q[i] \in Requests
      /\ a[Len(q) + 1] = n
  BY DEF Typed
<1> HIDE DEF a
<1>2. Entries(a) = Entries(q) \cup {n}
  BY <1>1 DEF Entries
<1>3. \A i \in Requests : i >= n => i \notin Entries(q) /\ i \notin pd
  BY DEF Tracked
<1>4. n \in Nat /\ \A i \in Requests : i \in Nat
  BY ExecutorAssumption DEF Requests
<1>5. \A i \in 1..Len(q) : q[i] < n
  <2> TAKE i \in 1..Len(q)
  <2>1. q[i] \in Requests /\ q[i] \in Entries(q)
    BY <1>1 DEF Entries
  <2>2. ~(q[i] >= n)
    BY <2>1, <1>3
  <2>3. q[i] \in Nat
    BY <2>1, ExecutorAssumption DEF Requests
  <2> QED BY <2>2, <2>3, <1>4
<1>6. Increasing(a)
  <2> SUFFICES ASSUME NEW i \in 1..Len(a), NEW j \in 1..Len(a), i < j
               PROVE  a[i] < a[j]
    BY DEF Increasing
  <2>1. i \in 1..Len(q)
    BY <1>1
  <2>2. CASE j = Len(q) + 1
    BY <1>1, <1>5, <2>1, <2>2
  <2>3. CASE j \in 1..Len(q)
    BY <1>1, <2>1, <2>3 DEF Tracked
  <2> QED BY <1>1, <2>2, <2>3
<1>7. [oc EXCEPT ![n] = "waiting"] \in [Requests -> Outcomes]
  BY DEF Typed, Outcomes
<1>8. \A i \in Requests : [oc EXCEPT ![n] = "waiting"][i] = IF i = n THEN "waiting" ELSE oc[i]
  BY DEF Typed
<1>9. n \notin pd
  BY <1>3, <1>4
<1>10. Typed(a, pd, [oc EXCEPT ![n] = "waiting"])
  BY <1>1, <1>7 DEF Typed
<1>11. Tracked(a, pd, [oc EXCEPT ![n] = "waiting"])
  BY <1>2, <1>6, <1>8, <1>9 DEF Tracked, Increasing
<1> QED BY <1>10, <1>11 DEF a

\* A fork or the latch, with nothing in flight.
LEMMA SpawnTracked ==
    ASSUME NEW STATE f, NEW STATE ch, NEW STATE q, NEW STATE oc,
           gen \in Nat, Typed(q, {}, oc), Tracked(q, {}, oc), pending' = {},
           Forked(f, ch, q, oc) \/ Latched(ch, q, oc)
    PROVE  /\ Typed(queue', pending', outcome')
           /\ Tracked(queue', pending', outcome')
           /\ \A i \in Requests : oc[i] # "waiting" => outcome'[i] = oc[i]
           /\ child' = NoChild => broken' /\ Quiet'
           /\ broken' => child' = NoChild
<1>1. CASE Forked(f, ch, q, oc)
  <2>1. child' # NoChild
    BY <1>1 DEF Forked, NoChild
  <2> QED BY <1>1, <2>1 DEF Forked
<1>2. CASE Latched(ch, q, oc)
  <2>1. outcome' = Settle(oc, Entries(q), "hostfault") /\ queue' = <<>>
    BY <1>2 DEF Latched
  <2>2. outcome' \in [Requests -> Outcomes]
    BY <2>1, SettleType DEF Typed, Outcomes, Settled
  <2>3. \A i \in Requests :
          outcome'[i] = IF i \in Entries(q) THEN "hostfault" ELSE oc[i]
    BY <2>1 DEF Settle
  <2>4. Entries(queue') = {}
    BY <2>1 DEF Entries
  <2>5. \A i \in Requests : outcome'[i] # "waiting"
    BY <2>3 DEF Tracked
  <2>6. Tracked(queue', pending', outcome')
    BY <2>1, <2>4, <2>5 DEF Tracked
  <2> QED BY <1>2, <2>1, <2>2, <2>3, <2>5, <2>6 DEF Latched, Typed, Tracked, Quiet
<1> QED BY <1>1, <1>2

(***************************************************************************)
(* The inductive invariant, one group of actions at a time.                *)
(***************************************************************************)
LEMMA InitInv == Init => ExecutorInv
<1> SUFFICES ASSUME Init PROVE ExecutorInv
  OBVIOUS
<1> USE WorkerAssumption, ExecutorAssumption
<1>1. Len(queue) = 0 /\ queue \in Seq(Requests)
  BY DEF Init, ExecutorInit
<1>2. TypeOK
  <2>1. outcome \in [Requests -> Outcomes]
    BY DEF Init, ExecutorInit, Outcomes
  <2>2. opts \in [Requests -> [kind : AllOptKinds, data : Nat]]
    BY DEF Init, ExecutorInit, NoOpts, AllOptKinds
  <2>3. chan \in Channels
    BY DEF Init, ExecutorInit, NoSnapshot, Channels, NoToken
  <2>4. wstate \in [Workers -> WorkerStates] /\ killed \in [Workers -> BOOLEAN]
    BY DEF Init, ExecutorInit, IPCInit, WorkerStates
  <2>5. /\ broken \in BOOLEAN /\ readyTimer \in BOOLEAN /\ connected \in BOOLEAN
        /\ backoff \in BOOLEAN /\ sawReady \in BOOLEAN /\ everReady \in BOOLEAN
        /\ inBlock \in BOOLEAN /\ shuttingDown \in BOOLEAN
    BY DEF Init, ExecutorInit
  <2>6. /\ child \in Workers \cup {NoChild} /\ gen \in 0..MaxWorkers
        /\ nextId \in 1..MaxRequests + 1 /\ blockNo \in Nat /\ nextTok \in Nat
        /\ pending \subseteq Requests /\ failures \in 0..MaxSpawnFailures
    BY DEF Init, ExecutorInit, NoChild, Workers
  <2> QED
    BY <1>1, <2>1, <2>2, <2>3, <2>4, <2>5, <2>6 DEF TypeOK
<1>3. Tracked(queue, pending, outcome) /\ Quiet
  BY <1>1 DEF Init, ExecutorInit, Tracked, Entries, Quiet
<1> QED
  BY <1>2, <1>3 DEF Init, ExecutorInit, ExecutorInv, WaitingIsTracked, NoChild

\* Steps that leave the promises and the worker slot alone.
LEMMA UnchangedTracked ==
    ASSUME ExecutorInv, TypeOK',
           UNCHANGED <<outcome, nextId, queue, pending, child, broken, shuttingDown>>
    PROVE  ExecutorInv'
BY DEF ExecutorInv, WaitingIsTracked, Tracked, Entries, Quiet

\* A step that keeps the worker and makes or settles promises.
LEMMA SameChild ==
    ASSUME ExecutorInv, TypeOK', UNCHANGED <<child, broken, shuttingDown>>,
           child # NoChild,
           Tracked(queue', pending', outcome'),
           \A i \in Requests : i >= nextId' => outcome'[i] = "none"
    PROVE  ExecutorInv'
BY DEF ExecutorInv, WaitingIsTracked, Tracked, Entries, Quiet

\* A step of a worker changes nothing of the executor.
LEMMA WorkerStep ==
    ASSUME ExecutorInv, NEW w \in Workers, Worker(w)
    PROVE  ExecutorInv'
<1>1. UNCHANGED executorVars
  BY DEF Worker
<1>2. wstate' \in [Workers -> WorkerStates] /\ killed' \in [Workers -> BOOLEAN]
  <2> USE DEF ExecutorInv, TypeOK, WorkerStates
  <2>1. CASE Working(w)
    BY <2>1 DEF Working, handleInitMessage, onSnapshotFrame, handleBeginBlockMessage,
       handleEndBlockMessage, handleExecuteMessage, StartContract, StaleReference,
       FinishContract, ReplyHostFault
  <2>2. CASE EscapedThrow(w)
    BY <2>2 DEF EscapedThrow, ReplyHostFault
  <2>3. CASE \E how \in Deaths : Crash(w, how)
    BY <2>3 DEF Crash, Die, Deaths
  <2>4. CASE KillArrives(w)
    BY <2>4 DEF KillArrives, Die
  <2>5. CASE SendOddFrame(w, Requests)
    BY <2>5 DEF SendOddFrame
  <2> QED BY <2>1, <2>2, <2>3, <2>4, <2>5 DEF Worker
<1>3. TypeOK'
  BY <1>1, <1>2 DEF ExecutorInv, TypeOK, executorVars, promiseVars, slotVars,
     latchVars, blockVars, chanVars
<1> QED
  BY <1>1, <1>3, UnchangedTracked DEF executorVars, promiseVars, slotVars, latchVars

\* The fields that flush() and the promises do not touch keep their types.
OtherTypes ==
    /\ opts \in [Requests -> [kind : AllOptKinds, data : Nat]]
    /\ nextId \in 1..MaxRequests + 1
    /\ child \in Workers \cup {NoChild}
    /\ gen \in 0..MaxWorkers
    /\ connected \in BOOLEAN /\ sawReady \in BOOLEAN /\ everReady \in BOOLEAN
    /\ readyTimer \in BOOLEAN
    /\ failures \in 0..MaxSpawnFailures
    /\ broken \in BOOLEAN /\ backoff \in BOOLEAN
    /\ inBlock \in BOOLEAN /\ blockNo \in Nat
    /\ shuttingDown \in BOOLEAN
    /\ wstate \in [Workers -> WorkerStates]
    /\ killed \in [Workers -> BOOLEAN]

\* The type invariant, with the variables that flush() works on apart.
LEMMA TypeSplit ==
    TypeOK <=> /\ OtherTypes
               /\ Typed(queue, pending, outcome)
               /\ chan \in Channels /\ nextTok \in Nat
BY DEF TypeOK, OtherTypes, Typed

\* A step that ends in flush(), with a worker in place.
LEMMA FlushStep ==
    ASSUME NEW STATE q, NEW STATE pd, NEW STATE ch, NEW STATE oc, NEW STATE ready,
           ExecutorInv, OtherTypes', UNCHANGED <<child, broken, shuttingDown>>,
           child # NoChild, ch \in Channels,
           Typed(q, pd, oc), Tracked(q, pd, oc),
           \A i \in Requests : i >= nextId' => oc[i] = "none",
           flush(q, pd, ch, oc, ready)
    PROVE  ExecutorInv'
<1>1. /\ Typed(queue', pending', outcome')
      /\ Tracked(queue', pending', outcome')
      /\ \A i \in Requests : oc[i] # "waiting" => outcome'[i] = oc[i]
  BY FlushTracked
<1>2. chan' \in Channels /\ nextTok' \in Nat
  <2>1. q \in Seq(Requests) /\ nextTok \in Nat
    BY DEF Typed, ExecutorInv, TypeOK
  <2>2. opts' \in [Requests -> [kind : AllOptKinds, data : Nat]]
    BY DEF OtherTypes
  <2> QED BY <2>1, <2>2, FlushTypes
<1>3. TypeOK'
  BY <1>1, <1>2 DEF TypeOK, OtherTypes, Typed
<1>4. \A i \in Requests : i >= nextId' => outcome'[i] = "none"
  BY <1>1
<1> QED BY <1>1, <1>3, <1>4, SameChild

\* execute(): refused, the probe of a tripped latch, or queued.
LEMMA ExecuteStep ==
    ASSUME ExecutorInv, NEW kind \in OptKinds,
           executeRejected(kind) \/ executeProbe(kind) \/ executeQueued(kind)
    PROVE  ExecutorInv'
<1> USE ExecutorAssumption, WorkerAssumption
<1>1. TypeOK /\ Tracked(queue, pending, outcome) /\ Typed(queue, pending, outcome)
  BY TypeSplit DEF ExecutorInv, WaitingIsTracked
<1>2. NewCall(kind)
  BY DEF executeRejected, executeProbe, executeQueued
<1>3. /\ nextId \in Requests /\ nextId' = nextId + 1 /\ nextId' \in 1..MaxRequests + 1
      /\ nextId \in Nat
  BY <1>1, <1>2 DEF NewCall, TypeOK, Requests
<1>4. opts' \in [Requests -> [kind : AllOptKinds, data : Nat]]
  <2>1. kind \in AllOptKinds
    OBVIOUS
  <2>2. PICK d \in Nat : opts' = [opts EXCEPT ![nextId] = [kind |-> kind, data |-> d]]
    BY <1>1, <1>2 DEF NewCall, TypeOK
  <2> QED BY <1>1, <2>1, <2>2 DEF TypeOK
<1>5. \A i \in Requests : i >= nextId => outcome[i] = "none"
  BY DEF ExecutorInv
<1>6. \A i \in Requests : i >= nextId' => i >= nextId /\ i # nextId
  BY <1>3 DEF Requests
<1>7. CASE executeRejected(kind)
  <2>1. outcome' = [outcome EXCEPT ![nextId] = "hostfault"]
    BY <1>7 DEF executeRejected
  <2>2. outcome' \in [Requests -> Outcomes]
    BY <1>1, <2>1 DEF TypeOK, Outcomes, Settled
  <2>3. \A i \in Requests : outcome'[i] = IF i = nextId THEN "hostfault" ELSE outcome[i]
    BY <1>1, <2>1 DEF TypeOK
  <2>4. outcome[nextId] # "waiting"
    BY <1>3, <1>5
  <2>5. Tracked(queue, pending, outcome')
    BY <1>1, <2>3, <2>4 DEF Tracked
  <2>6. UNCHANGED <<queue, pending, child, broken, shuttingDown>>
    BY <1>7 DEF executeRejected, slotVars, latchVars
  <2>7. ~Quiet' => ~Quiet
    BY <2>3 DEF Quiet
  <2>8. TypeOK'
    BY <1>1, <1>3, <1>4, <1>7, <2>2
       DEF TypeOK, executeRejected, slotVars, latchVars, blockVars, chanVars, ipcVars
  <2>9. \A i \in Requests : i >= nextId' => outcome'[i] = "none"
    BY <1>5, <1>6, <2>3
  <2> QED BY <2>5, <2>6, <2>7, <2>8, <2>9 DEF ExecutorInv, WaitingIsTracked, Tracked, Entries
<1>8. CASE executeProbe(kind)
  <2>1. broken /\ child = NoChild /\ pending = {} /\ gen \in 0..MaxWorkers
    BY <1>1, <1>8 DEF executeProbe, ExecutorInv, WaitingIsTracked, Quiet, Tracked, TypeOK
  <2>2. pending' = {}
    BY <1>8, <2>1 DEF executeProbe
  <2>3. CASE Forked(failures, chan, Append(queue, nextId), [outcome EXCEPT ![nextId] = "waiting"])
    <3>1. /\ Typed(Append(queue, nextId), {}, [outcome EXCEPT ![nextId] = "waiting"])
          /\ Tracked(Append(queue, nextId), {}, [outcome EXCEPT ![nextId] = "waiting"])
      BY <1>1, <1>3, <1>5, <2>1, AppendTracked
    <3>2. queue' = Append(queue, nextId) /\ outcome' = [outcome EXCEPT ![nextId] = "waiting"]
      BY <2>3 DEF Forked
    <3>3. child' = gen + 1 /\ child' \in Workers /\ child' # NoChild /\ broken' = FALSE
      BY <2>1, <2>3 DEF Forked, Workers, NoChild
    <3>4. chan' \in Channels
      BY <1>1, <2>3 DEF Forked, workerSpawned, Channels, TypeOK
    <3>5. wstate' \in [Workers -> WorkerStates]
      BY <1>1, <2>3 DEF Forked, TypeOK, WorkerStates
    <3>6. TypeOK'
      <4>3. /\ connected' \in BOOLEAN /\ sawReady' \in BOOLEAN /\ everReady' \in BOOLEAN
            /\ readyTimer' \in BOOLEAN /\ broken' \in BOOLEAN /\ backoff' \in BOOLEAN
            /\ inBlock' \in BOOLEAN /\ shuttingDown' \in BOOLEAN
        BY <1>1, <1>8, <2>3, Zenon DEF TypeOK, Forked, executeProbe, blockVars
      <4>1. OtherTypes'
        BY <4>3, <1>1, <1>3, <1>4, <1>8, <2>1, <2>3, <3>3, <3>5
           DEF TypeOK, OtherTypes, Forked, executeProbe, blockVars
      <4>2. nextTok' \in Nat /\ Typed(queue', pending', outcome')
        BY <1>1, <1>8, <2>2, <3>1, <3>2 DEF TypeOK, executeProbe
      <4> QED BY <3>4, <4>1, <4>2 DEF TypeOK, OtherTypes, Typed
    <3>7. \A i \in Requests : i >= nextId' => outcome'[i] = "none"
      BY <1>1, <1>5, <1>6, <3>2 DEF TypeOK
    <3>8. shuttingDown' = FALSE
      BY <1>1, <1>8 DEF executeProbe, TypeOK
    <3>9. Tracked(queue', pending', outcome')
      BY <2>2, <3>1, <3>2
    <3> QED BY <3>3, <3>6, <3>7, <3>8, <3>9 DEF ExecutorInv, WaitingIsTracked, Tracked, Entries
  <2>4. CASE Latched(chan, queue, [outcome EXCEPT ![nextId] = "hostfault"])
    <3> DEFINE oc == [outcome EXCEPT ![nextId] = "hostfault"]
    <3>1. /\ oc \in [Requests -> Outcomes]
          /\ \A i \in Requests : oc[i] = IF i = nextId THEN "hostfault" ELSE outcome[i]
      BY <1>1 DEF TypeOK, Outcomes, Settled
    <3>2. outcome[nextId] # "waiting"
      BY <1>3, <1>5
    <3> HIDE DEF oc
    <3>3. Typed(queue, {}, oc) /\ Tracked(queue, {}, oc)
      BY <1>1, <2>1, <3>1, <3>2 DEF Typed, Tracked
    <3>4. /\ Typed(queue', pending', outcome')
          /\ Tracked(queue', pending', outcome')
          /\ \A i \in Requests : oc[i] # "waiting" => outcome'[i] = oc[i]
          /\ child' = NoChild => broken' /\ Quiet'
          /\ broken' => child' = NoChild
      <4>1. gen \in Nat /\ Latched(chan, queue, oc)
        BY <2>1, <2>4 DEF oc
      <4> QED BY <2>2, <3>3, <4>1, SpawnTracked
    <3>5. child' = NoChild
      BY <2>4 DEF Latched
    <3>6. chan' \in Channels
      BY <1>1, <2>4 DEF Latched, workerSpawned, Channels, TypeOK
    <3>7. TypeOK'
      <4>3. /\ connected' \in BOOLEAN /\ sawReady' \in BOOLEAN /\ everReady' \in BOOLEAN
            /\ readyTimer' \in BOOLEAN /\ broken' \in BOOLEAN /\ backoff' \in BOOLEAN
            /\ inBlock' \in BOOLEAN /\ shuttingDown' \in BOOLEAN
        BY <1>1, <1>8, <2>4, Zenon DEF TypeOK, Latched, executeProbe, blockVars
      <4>1. OtherTypes'
        BY <4>3, <1>1, <1>3, <1>4, <1>8, <2>4
           DEF TypeOK, OtherTypes, Latched, executeProbe, blockVars
      <4>2. nextTok' \in Nat
        BY <1>1, <1>8 DEF TypeOK, executeProbe
      <4> QED BY <3>4, <3>6, <4>1, <4>2 DEF TypeOK, OtherTypes, Typed
    <3>8. \A i \in Requests : i >= nextId' => outcome'[i] = "none"
      BY <1>5, <1>6, <3>1, <3>4
    <3> QED BY <3>4, <3>5, <3>7, <3>8 DEF ExecutorInv, WaitingIsTracked, Tracked, Entries
  <2> QED BY <1>8, <2>3, <2>4 DEF executeProbe
<1>9. CASE executeQueued(kind)
  <2> DEFINE q == Append(queue, nextId)
  <2> DEFINE oc == [outcome EXCEPT ![nextId] = "waiting"]
  <2>1. Typed(q, pending, oc) /\ Tracked(q, pending, oc)
    BY <1>1, <1>3, <1>5, AppendTracked
  <2>2. \A i \in Requests : i >= nextId' => oc[i] = "none"
    BY <1>1, <1>5, <1>6 DEF TypeOK
  <2>3. flush(q, pending, chan, oc, sawReady)
    BY <1>9 DEF executeQueued
  <2> HIDE DEF q, oc
  <2>4. child # NoChild /\ chan \in Channels
    BY <1>1, <1>9 DEF executeQueued, ExecutorInv, TypeOK
  <2>5. OtherTypes' /\ UNCHANGED <<child, broken, shuttingDown>>
    BY <1>1, <1>3, <1>4, <1>9 DEF executeQueued, OtherTypes, TypeOK, slotVars, latchVars, blockVars
  <2> QED BY <2>1, <2>2, <2>3, <2>4, <2>5, FlushStep
<1> QED BY <1>7, <1>8, <1>9

\* onExit(): the dispatched call is settled, then a worker is forked or the
\* latch trips.
LEMMA ExitStep ==
    ASSUME ExecutorInv, NEW how, onExit(how), killed' \in [Workers -> BOOLEAN],
           child # NoChild
    PROVE  ExecutorInv'
<1> USE ExecutorAssumption, WorkerAssumption
<1> DEFINE verdict == IF how = "self" THEN "terminated" ELSE "hostfault"
<1> DEFINE oc == Settle(outcome, pending, verdict)
<1>1. TypeOK /\ Tracked(queue, pending, outcome) /\ Typed(queue, pending, outcome)
  BY TypeSplit DEF ExecutorInv, WaitingIsTracked
<1>2. /\ Typed(queue, {}, oc) /\ Tracked(queue, {}, oc)
      /\ \A i \in Requests : outcome[i] # "waiting" => oc[i] = outcome[i]
  <2>1. verdict \in Settled /\ pending \in SUBSET pending /\ pending \ pending = {}
    BY DEF Settled
  <2> HIDE DEF verdict
  <2> QED BY <1>1, <2>1, SettleTracked
<1>3. PICK f \in 0..MaxSpawnFailures : afterWorkerLost(f, clearTimer(chan), queue, oc)
  <2>1. (IF everReady \/ failures = MaxSpawnFailures THEN failures ELSE failures + 1)
           \in 0..MaxSpawnFailures
    BY <1>1 DEF TypeOK
  <2> QED BY <2>1 DEF onExit
<1> HIDE DEF oc, verdict
<1>4. PICK g \in 0..MaxSpawnFailures :
         \/ Forked(g, clearTimer(chan), queue, oc)
         \/ Latched(clearTimer(chan), queue, oc)
  <2>1. PICK throws \in 0..(MaxSpawnFailures - f) :
           IF f + throws >= MaxSpawnFailures THEN Latched(clearTimer(chan), queue, oc)
           ELSE Forked(f + throws, clearTimer(chan), queue, oc)
    BY <1>3 DEF afterWorkerLost
  <2>2. f + throws \in 0..MaxSpawnFailures
    OBVIOUS
  <2> QED BY <2>1, <2>2
<1>5. /\ pending' = {}
      /\ UNCHANGED <<opts, nextId, backoff, blockVars, nextTok, shuttingDown>>
  BY DEF onExit
<1>6. /\ Typed(queue', pending', outcome')
      /\ Tracked(queue', pending', outcome')
      /\ \A i \in Requests : oc[i] # "waiting" => outcome'[i] = oc[i]
      /\ child' = NoChild => broken' /\ Quiet'
      /\ broken' => child' = NoChild
  <2>1. gen \in Nat
    BY <1>1 DEF TypeOK
  <2> QED BY <1>2, <1>4, <1>5, <2>1, SpawnTracked
<1>7. clearTimer(chan) \in Channels /\ workerSpawned(clearTimer(chan)) \in Channels
  BY <1>1 DEF TypeOK, Channels, clearTimer, workerSpawned
<1>8. chan' \in Channels
  BY <1>4, <1>7 DEF Forked, Latched
<1>9. /\ connected' \in BOOLEAN /\ sawReady' \in BOOLEAN /\ everReady' \in BOOLEAN
      /\ readyTimer' \in BOOLEAN /\ broken' \in BOOLEAN /\ backoff' \in BOOLEAN
      /\ inBlock' \in BOOLEAN /\ shuttingDown' \in BOOLEAN
  BY <1>1, <1>4, <1>5, Zenon DEF TypeOK, Forked, Latched, blockVars
<1>10. /\ child' \in Workers \cup {NoChild} /\ gen' \in 0..MaxWorkers
       /\ failures' \in 0..MaxSpawnFailures /\ blockNo' \in Nat
       /\ wstate' \in [Workers -> WorkerStates]
  <2>1. CASE Forked(g, clearTimer(chan), queue, oc)
    BY <1>1, <1>5, <2>1 DEF TypeOK, Forked, blockVars, Workers, WorkerStates
  <2>2. CASE Latched(clearTimer(chan), queue, oc)
    BY <1>1, <1>5, <2>2 DEF TypeOK, Latched, blockVars
  <2> QED BY <1>4, <2>1, <2>2
<1>11. TypeOK'
  BY <1>1, <1>5, <1>6, <1>8, <1>9, <1>10 DEF TypeOK, Typed
<1>12. \A i \in Requests : i >= nextId' => outcome'[i] = "none"
  BY <1>2, <1>5, <1>6 DEF ExecutorInv
<1>13. shuttingDown' = FALSE
  BY <1>1, <1>5 DEF ExecutorInv, TypeOK
<1> QED BY <1>6, <1>11, <1>12, <1>13 DEF ExecutorInv, WaitingIsTracked, Tracked, Entries

\* Frames from workers.
LEMMA ListenStep ==
    ASSUME ExecutorInv, NEW w \in Workers, Listen(w)
    PROVE  ExecutorInv'
<1>1. /\ TypeOK /\ Tracked(queue, pending, outcome) /\ Typed(queue, pending, outcome)
      /\ \A i \in Requests : i >= nextId => outcome[i] = "none"
  BY TypeSplit DEF ExecutorInv, WaitingIsTracked
<1>2. w # NoChild
  BY WorkerAssumption DEF Workers, NoChild
<1>3. CASE onStaleFrame(w) \/ onReadyAgain(w) \/ onUnknownReply(w)
  <2>1. UNCHANGED <<executorVars, wstate, killed>>
    BY <1>3 DEF onStaleFrame, onReadyAgain, onUnknownReply
  <2>2. TypeOK'
    BY <1>1, <2>1 DEF TypeOK, executorVars, promiseVars, slotVars, latchVars,
       blockVars, chanVars
  <2> QED BY <2>1, <2>2, UnchangedTracked
          DEF executorVars, promiseVars, slotVars, latchVars
<1>4. CASE onSnapshotAck(w)
  <2> DEFINE ch == onAck(chan, Head(outbox[w]).tok)
  <2>1. ch \in Channels
    BY <1>1 DEF onAck, Channels, TypeOK
  <2>2. flush(queue, pending, ch, outcome, sawReady)
    BY <1>4 DEF onSnapshotAck
  <2> HIDE DEF ch
  <2>3. child # NoChild
    BY <1>2, <1>4 DEF onSnapshotAck, From
  <2>4. OtherTypes' /\ UNCHANGED <<child, broken, shuttingDown, nextId>>
    BY <1>1, <1>4 DEF onSnapshotAck, TypeOK, OtherTypes, slotVars, latchVars, blockVars
  <2> QED BY <1>1, <2>1, <2>2, <2>3, <2>4, FlushStep
<1>5. CASE onReady(w)
  <2>1. flush(queue, pending, chan, outcome, TRUE)
    BY <1>5 DEF onReady
  <2>2. child # NoChild /\ chan \in Channels
    BY <1>1, <1>2, <1>5 DEF onReady, From, TypeOK
  <2>3. OtherTypes' /\ UNCHANGED <<child, broken, shuttingDown, nextId>>
    <3>1. /\ connected' \in BOOLEAN /\ sawReady' \in BOOLEAN /\ everReady' \in BOOLEAN
          /\ readyTimer' \in BOOLEAN /\ broken' \in BOOLEAN /\ backoff' \in BOOLEAN
          /\ inBlock' \in BOOLEAN /\ shuttingDown' \in BOOLEAN
      BY <1>1, <1>5, Zenon DEF onReady, TypeOK, blockVars
    <3> QED BY <1>1, <1>5, <3>1, ExecutorAssumption DEF onReady, TypeOK, OtherTypes, blockVars
  <2> QED BY <1>1, <2>1, <2>2, <2>3, FlushStep
<1>6. CASE onBadReply(w)
  <2> DEFINE id == Head(outbox[w]).id
  <2>1. /\ id \in pending /\ pending' = pending \ {id}
        /\ outcome' = Settle(outcome, {id}, "hostfault")
        /\ queue' = queue /\ child # NoChild
    BY <1>2, <1>6 DEF onBadReply, From
  <2> HIDE DEF id
  <2>2. /\ Typed(queue', pending', outcome') /\ Tracked(queue', pending', outcome')
        /\ \A i \in Requests : outcome[i] # "waiting" => outcome'[i] = outcome[i]
    <3>1. "hostfault" \in Settled /\ {id} \in SUBSET pending
      BY <2>1 DEF Settled
    <3> QED BY <1>1, <2>1, <3>1, SettleTracked
  <2>3. UNCHANGED <<child, broken, shuttingDown, nextId>>
    BY <1>6 DEF onBadReply, latchVars
  <2>4. killed' \in [Workers -> BOOLEAN] /\ sawReady' \in BOOLEAN
    BY <1>1, <1>6 DEF onBadReply, Kill, TypeOK
  <2>5. TypeOK'
    BY <1>1, <1>6, <2>2, <2>4 DEF onBadReply, TypeOK, Typed, latchVars, blockVars, chanVars
  <2> QED BY <1>1, <2>1, <2>2, <2>3, <2>5, SameChild
<1>7. CASE onReply(w)
  <2> DEFINE r == Head(outbox[w])
  <2> DEFINE oc == Settle(outcome, {r.id}, r.type)
  <2>1. /\ r.id \in pending /\ child # NoChild /\ r.type \in Settled
        /\ flush(queue, pending \ {r.id}, chan, oc, sawReady)
    BY <1>2, <1>7 DEF onReply, From, Settled
  <2>2. /\ Typed(queue, pending \ {r.id}, oc) /\ Tracked(queue, pending \ {r.id}, oc)
        /\ \A i \in Requests : outcome[i] # "waiting" => oc[i] = outcome[i]
    <3>1. {r.id} \in SUBSET pending
      BY <2>1
    <3> HIDE DEF r
    <3> QED BY <1>1, <2>1, <3>1, SettleTracked
  <2> HIDE DEF oc, r
  <2>3. OtherTypes' /\ UNCHANGED <<child, broken, shuttingDown, nextId>>
    BY <1>1, <1>7 DEF onReply, TypeOK, OtherTypes, slotVars, latchVars, blockVars
  <2>4. chan \in Channels
    BY <1>1 DEF TypeOK
  <2>5. \A i \in Requests : i >= nextId' => oc[i] = "none"
    BY <1>1, <2>2, <2>3
  <2> QED BY <2>1, <2>2, <2>3, <2>4, <2>5, FlushStep
<1> QED BY <1>3, <1>4, <1>5, <1>6, <1>7 DEF Listen

\* beginBlock() and endBlock() touch the channel only.
LEMMA BlockStep ==
    ASSUME ExecutorInv, beginBlock \/ endBlock
    PROVE  ExecutorInv'
<1>1. UNCHANGED <<promiseVars, queue, pending, slotVars, latchVars, nextTok,
                  shuttingDown, wstate, killed>>
  BY DEF beginBlock, endBlock
<1>2. chan' \in Channels
  <2>1. NoSnapshot \in Channels
    BY DEF NoSnapshot, Channels, NoToken
  <2> QED BY <2>1 DEF beginBlock, endBlock
<1>4. inBlock' \in BOOLEAN
  BY DEF beginBlock, endBlock
<1>5. blockNo' \in Nat
  BY DEF beginBlock, endBlock, ExecutorInv, TypeOK
<1>3. TypeOK'
  BY <1>1, <1>2, <1>4, <1>5 DEF ExecutorInv, TypeOK, promiseVars, slotVars, latchVars
<1> QED BY <1>1, <1>3, UnchangedTracked DEF promiseVars, slotVars, latchVars

\* shutdown() rejects whatever is queued or in flight.
LEMMA ShutdownStep ==
    ASSUME ExecutorInv, shutdown
    PROVE  ExecutorInv'
<1> DEFINE S == pending \cup Entries(queue)
<1>1. TypeOK /\ Tracked(queue, pending, outcome) /\ Typed(queue, pending, outcome)
  BY TypeSplit DEF ExecutorInv, WaitingIsTracked
<1>2. /\ outcome' = Settle(outcome, S, "hostfault") /\ queue' = <<>> /\ pending' = {}
      /\ child' = NoChild /\ shuttingDown' = TRUE /\ broken' = broken /\ nextId' = nextId
  BY DEF shutdown, latchVars
<1>3. outcome' \in [Requests -> Outcomes]
  BY <1>1, <1>2, SettleType DEF Typed, Outcomes, Settled
<1>4. \A i \in Requests : outcome'[i] = IF i \in S THEN "hostfault" ELSE outcome[i]
  BY <1>2 DEF Settle
<1>5. Quiet'
  BY <1>1, <1>4 DEF Quiet, Tracked
<1>6. Tracked(queue', pending', outcome')
  <2>1. Entries(queue') = {} /\ Len(queue') = 0
    BY <1>2 DEF Entries
  <2>2. \A i \in Requests : outcome'[i] # "waiting"
    BY <1>5 DEF Quiet
  <2>3. pending' = {} /\ 1..Len(queue') = {}
    BY <1>2, <2>1
  <2> HIDE <1>2
  <2> QED BY <2>1, <2>2, <2>3 DEF Tracked
<1>7. chan' \in Channels
  BY <1>1 DEF shutdown, clearTimer, Channels, TypeOK
<1>8. killed' \in [Workers -> BOOLEAN]
  BY <1>1 DEF shutdown, Kill, TypeOK
<1>9. TypeOK'
  <2>1. /\ connected' \in BOOLEAN /\ sawReady' \in BOOLEAN /\ everReady' \in BOOLEAN
        /\ readyTimer' \in BOOLEAN /\ broken' \in BOOLEAN /\ backoff' \in BOOLEAN
        /\ inBlock' \in BOOLEAN /\ shuttingDown' \in BOOLEAN
    BY <1>1, Zenon DEF shutdown, TypeOK, blockVars, latchVars
  <2>2. queue' \in Seq(Requests) /\ pending' \subseteq Requests
    BY <1>2
  <2>3. OtherTypes'
    BY <1>1, <1>2, <1>8, <2>1 DEF shutdown, TypeOK, OtherTypes, blockVars, latchVars
  <2>4. nextTok' \in Nat
    BY <1>1 DEF shutdown, TypeOK
  <2> QED BY <1>3, <1>7, <2>2, <2>3, <2>4 DEF TypeOK, OtherTypes
<1>10. \A i \in Requests : i >= nextId' => outcome'[i] = "none"
  BY <1>1, <1>2, <1>4 DEF ExecutorInv, Tracked
<1> QED BY <1>2, <1>5, <1>6, <1>9, <1>10 DEF ExecutorInv, WaitingIsTracked, Tracked, Entries

\* The three timers, and a channel that disconnects.
LEMMA TimerStep ==
    ASSUME ExecutorInv, onDisconnect \/ Timers
    PROVE  ExecutorInv'
<1>1. /\ TypeOK /\ Tracked(queue, pending, outcome) /\ Typed(queue, pending, outcome)
      /\ \A i \in Requests : i >= nextId => outcome[i] = "none"
  BY TypeSplit DEF ExecutorInv, WaitingIsTracked
<1>2. CASE onReadyTimeout
  <2>1. killed' \in [Workers -> BOOLEAN] /\ child # NoChild /\ onExit("external")
    BY <1>1, <1>2 DEF onReadyTimeout, Kill, TypeOK
  <2> QED BY <2>1, ExitStep
<1>3. CASE onAckTimeout
  <2>1. /\ killed' \in [Workers -> BOOLEAN] /\ sawReady' \in BOOLEAN /\ chan' \in Channels
    BY <1>1, <1>3 DEF onAckTimeout, Kill, clearTimer, Channels, TypeOK
  <2>2. TypeOK'
    BY <1>1, <1>3, <2>1 DEF onAckTimeout, TypeOK, promiseVars, latchVars, blockVars
  <2> QED BY <1>3, <2>2, UnchangedTracked DEF onAckTimeout, promiseVars, latchVars
<1>4. CASE onDisconnect \/ BackoffElapses
  <2>1. connected' \in BOOLEAN /\ backoff' \in BOOLEAN
    BY <1>1, <1>4 DEF onDisconnect, BackoffElapses, TypeOK, slotVars, latchVars
  <2>2. TypeOK'
    BY <1>1, <1>4, <2>1 DEF onDisconnect, BackoffElapses, TypeOK, promiseVars, slotVars,
       latchVars, blockVars, chanVars, ipcVars
  <2> QED BY <1>4, <2>2, UnchangedTracked
          DEF onDisconnect, BackoffElapses, promiseVars, slotVars, latchVars
<1>5. ASSUME NEW id \in Requests, onWatchdog(id)
      PROVE  ExecutorInv'
  <2>1. /\ id \in pending /\ pending' = pending \ {id} /\ queue' = queue
        /\ outcome' = Settle(outcome, {id}, "watchdog")
        /\ UNCHANGED <<child, broken, shuttingDown, nextId>>
    BY <1>5 DEF onWatchdog, latchVars
  <2>2. /\ Typed(queue', pending', outcome') /\ Tracked(queue', pending', outcome')
        /\ \A i \in Requests : outcome[i] # "waiting" => outcome'[i] = outcome[i]
    <3>1. "watchdog" \in Settled /\ {id} \in SUBSET pending
      BY <2>1 DEF Settled
    <3> QED BY <1>1, <2>1, <3>1, SettleTracked
  <2>3. child # NoChild
    BY <1>1, <2>1 DEF ExecutorInv, WaitingIsTracked, Tracked, Quiet
  <2>4. killed' \in [Workers -> BOOLEAN] /\ sawReady' \in BOOLEAN
    BY <1>1, <1>5 DEF onWatchdog, Kill, TypeOK
  <2>5. TypeOK'
    BY <1>1, <1>5, <2>2, <2>4 DEF onWatchdog, TypeOK, Typed, latchVars, blockVars, chanVars
  <2> QED BY <1>1, <2>1, <2>2, <2>3, <2>5, SameChild
<1> QED BY <1>2, <1>3, <1>4, <1>5 DEF Timers

\* Every step of the executor and of its workers keeps the bookkeeping.
LEMMA NextInv == ExecutorInv /\ [Next]_vars => ExecutorInv'
<1> SUFFICES ASSUME ExecutorInv, [Next]_vars PROVE ExecutorInv'
  OBVIOUS
<1>1. CASE UNCHANGED vars
  <2>1. TypeOK'
    BY <1>1 DEF vars, executorVars, promiseVars, slotVars, latchVars, blockVars, chanVars,
       ipcVars, ExecutorInv, TypeOK
  <2> QED BY <1>1, <2>1, UnchangedTracked DEF vars, executorVars, promiseVars, slotVars,
          latchVars
<1>2. ASSUME NEW w \in Workers, Worker(w) PROVE ExecutorInv'
  BY <1>2, WorkerStep
<1>3. CASE Executor
  <2>1. CASE Caller
    BY <2>1, ExecuteStep, BlockStep, ShutdownStep DEF Caller
  <2>2. ASSUME NEW w \in Workers, Listen(w) PROVE ExecutorInv'
    BY <2>2, ListenStep
  <2>3. CASE onChildExit
    <3>1. /\ child # NoChild /\ onExit(wstate[child])
          /\ killed' \in [Workers -> BOOLEAN]
      BY <2>3 DEF onChildExit, ExecutorInv, TypeOK
    <3> QED BY <3>1, ExitStep
  <2>4. CASE onDisconnect \/ Timers
    BY <2>4, TimerStep
  <2> QED BY <1>3, <2>1, <2>2, <2>3, <2>4 DEF Executor
<1> QED BY <1>1, <1>2, <1>3 DEF Next

(***************************************************************************)
(* process-executor.js, for every number of calls, workers and blocks: no  *)
(* promise execute() returned is lost, through crashes, timeouts, the      *)
(* broken latch and shutdown().  A waiting call is queued or in flight,    *)
(* never both, at most one is in flight, and a worker is there for it.     *)
(***************************************************************************)
THEOREM NoPromiseLost == Spec => []WaitingIsTracked
<1>1. Spec => []ExecutorInv
  BY InitInv, NextInv, PTL DEF Spec
<1>2. ExecutorInv => WaitingIsTracked
  BY DEF ExecutorInv
<1> QED BY <1>1, <1>2, PTL

\* The fields keep their types.
THEOREM TypeCorrect == Spec => []TypeOK
<1>1. Spec => []ExecutorInv
  BY InitInv, NextInv, PTL DEF Spec
<1>2. ExecutorInv => TypeOK
  BY DEF ExecutorInv
<1> QED BY <1>1, <1>2, PTL

-----------------------------------------------------------------------------
(***************************************************************************)
(* The executor implements ExecutionService: every step moves the line of  *)
(* calls, or leaves the calls alone.                                       *)
(***************************************************************************)
\* The promises after a step in which v settles what left the server, the first k
\* calls of the line left it, and the calls in joined joined it.
Moved(oc, pd, all, k, pdNext, joined, v) ==
    [i \in Requests |->
        IF i \in pd \ pdNext THEN v
        ELSE IF i \in {all[j] : j \in 1..k} \ pdNext THEN "hostfault"
        ELSE IF i \in joined THEN "waiting" ELSE oc[i]]

\* A step with this effect on the promises, the line and the server is a step of
\* the service.
LEMMA MoveStep ==
    ASSUME Typed(queue, pending, outcome), Tracked(queue, pending, outcome),
           NEW joining \in {<<>>} \cup {<<c>> : c \in {d \in Requests : outcome[d] = "none"}},
           NEW k \in 0..Len(queue \o joining), NEW v \in Settled,
           queue' = SubSeq(queue \o joining, k + 1, Len(queue \o joining)),
           \/ pending' = {} \/ pending' = pending
           \/ k > 0 /\ pending' = {(queue \o joining)[k]},
           outcome' = Moved(outcome, pending, queue \o joining, k, pending', Entries(joining), v)
    PROVE  Service!Next
<1> DEFINE all == queue \o joining
           leaving == {all[i] : i \in 1..k}
           joined == {all[i] : i \in 1..Len(all)} \ {queue[i] : i \in 1..Len(queue)}
<1>1. /\ joining \in Seq(Requests) /\ queue \in Seq(Requests) /\ all \in Seq(Requests)
      /\ Len(joining) \in Nat /\ Len(queue) \in Nat /\ Len(all) = Len(queue) + Len(joining)
      /\ \A i \in 1..Len(all) : all[i] = IF i <= Len(queue) THEN queue[i]
                                                            ELSE joining[i - Len(queue)]
  <2>1. joining \in Seq(Requests) /\ queue \in Seq(Requests)
    <3>1. ASSUME NEW c \in Requests PROVE <<c>> \in Seq(Requests)
      OBVIOUS
    <3>2. <<>> \in Seq(Requests)
      BY EmptySeq
    <3> QED BY <3>1, <3>2 DEF Typed
  <2> QED BY <2>1, ConcatProperties, LenProperties
<1>2. \A i \in Entries(joining) : i \in Requests /\ outcome[i] = "none"
  BY DEF Entries
<1>3. Entries(joining) \cap Entries(queue) = {} /\ Entries(joining) \cap pending = {}
  BY <1>2 DEF Tracked
<1>4. joined = Entries(joining)
  <2>1. ASSUME NEW x \in joined PROVE x \in Entries(joining)
    <3>1. PICK i \in 1..Len(all) : x = all[i]
      OBVIOUS
    <3>2. ~(i <= Len(queue))
      <4> SUFFICES ASSUME i <= Len(queue) PROVE FALSE
        OBVIOUS
      <4>1. i \in 1..Len(queue) /\ x = queue[i]
        BY <1>1, <3>1
      <4> QED BY <4>1, <2>1
    <3>3. i - Len(queue) \in 1..Len(joining) /\ x = joining[i - Len(queue)]
      BY <1>1, <3>1, <3>2
    <3> QED BY <3>3 DEF Entries
  <2>2. ASSUME NEW x \in Entries(joining) PROVE x \in joined
    <3>1. PICK i \in 1..Len(joining) : x = joining[i]
      BY DEF Entries
    <3>2. /\ Len(queue) + i \in 1..Len(all) /\ ~(Len(queue) + i <= Len(queue))
          /\ (Len(queue) + i) - Len(queue) = i
      BY <1>1, <3>1
    <3>3. x = all[Len(queue) + i]
      BY <1>1, <3>1, <3>2
    <3>4. x \notin {queue[j] : j \in 1..Len(queue)}
      BY <1>3, <2>2 DEF Entries
    <3> QED BY <3>2, <3>3, <3>4
  <2> QED BY <2>1, <2>2
<1>5. pending' \in {{}, pending} \cup {{c} : c \in Requests}
  <2>1. CASE k > 0 /\ pending' = {all[k]}
    <3>1. k \in 1..Len(all)
      BY <1>1, <2>1
    <3>2. all[k] \in Requests
      BY <1>1, <3>1, ElementOfSeq
    <3> QED BY <2>1, <3>2
  <2> QED BY <2>1
<1>6. pending' \subseteq pending \/ (k > 0 /\ pending' = {all[k]})
  OBVIOUS
<1> HIDE DEF all, joined
<1>7. outcome' = [c \in Requests |->
                    CASE c \in pending \ pending' -> v
                      [] c \in leaving \ (pending' \cup pending) -> "hostfault"
                      [] c \in joined \ (leaving \ pending') -> "waiting"
                      [] OTHER -> outcome[c]]
  <2> DEFINE a == Moved(outcome, pending, all, k, pending', Entries(joining), v)
             b == [c \in Requests |->
                    CASE c \in pending \ pending' -> v
                      [] c \in leaving \ (pending' \cup pending) -> "hostfault"
                      [] c \in joined \ (leaving \ pending') -> "waiting"
                      [] OTHER -> outcome[c]]
  <2>1. ASSUME NEW c \in Requests PROVE a[c] = b[c]
    <3>0. a[c] = IF c \in pending \ pending' THEN v
                 ELSE IF c \in leaving \ pending' THEN "hostfault"
                 ELSE IF c \in Entries(joining) THEN "waiting" ELSE outcome[c]
      BY DEF Moved
    <3> HIDE DEF leaving, a
    <3>1. CASE c \in pending \ pending'
      BY <1>3, <1>4, <3>0, <3>1
    <3>2. CASE c \notin pending \ pending' /\ c \in leaving \ pending'
      BY <1>4, <3>0, <3>2
    <3>3. CASE c \notin pending \ pending' /\ c \notin leaving \ pending' /\ c \in Entries(joining)
      BY <1>4, <3>0, <3>3
    <3>4. CASE c \notin pending \ pending' /\ c \notin leaving \ pending' /\ c \notin Entries(joining)
      BY <1>4, <3>0, <3>4
    <3> QED BY <3>1, <3>2, <3>3, <3>4
  <2>2. outcome' = a
    BY DEF all
  <2>3. a = [c \in Requests |-> a[c]]
    BY DEF Moved
  <2> QED BY <2>1, <2>2, <2>3
<1>8. queue' = SubSeq(all, k + 1, Len(all)) /\ k \in 0..Len(all)
  BY DEF all
<1>9. Service!Move(all, k, pending', v)
  BY <1>6, <1>7, <1>8 DEF Service!Move, joined
<1> QED BY <1>5, <1>8, <1>9 DEF Service!Next, all

\* The first k calls of q leave the line, the last of them perhaps to be served,
\* the others rejected.
Flushed(q, pd, oc, k) ==
    /\ queue' = SubSeq(q, k + 1, Len(q))
    /\ pending' = pd \/ (pd = {} /\ k > 0 /\ pending' = {q[k]})
    /\ outcome' = Settle(oc, {q[j] : j \in 1..k} \ pending', "hostfault")

\* That is what flush() does to the line.
LEMMA FlushShape ==
    ASSUME NEW STATE q, NEW STATE pd, NEW STATE ch, NEW STATE oc, NEW STATE ready,
           Typed(q, pd, oc), Increasing(q), flush(q, pd, ch, oc, ready)
    PROVE  \E k \in 0..Len(q) : Flushed(q, pd, oc, k)
<1>0. q \in Seq(Requests) /\ Len(q) \in Nat /\ oc \in [Requests -> Outcomes]
  BY LenProperties DEF Typed
<1>1. CASE pd # {} \/ child = NoChild \/ ~ready \/ ~connected
  <2>1. queue' = q /\ pending' = pd /\ outcome' = oc
    BY <1>1 DEF flush
  <2>2. q = SubSeq(q, 0 + 1, Len(q))
    BY <1>0, SubSeqFull
  <2>3. Settle(oc, {q[j] : j \in 1..0} \ pd, "hostfault") = oc
    BY <1>0 DEF Settle
  <2>4. 0 \in 0..Len(q)
    BY <1>0
  <2> QED BY <2>1, <2>2, <2>3, <2>4 DEF Flushed
<1>2. CASE ~(pd # {} \/ child = NoChild \/ ~ready \/ ~connected)
  <2>1. PICK n \in 0..Len(q) :
          /\ outcome' = Settle(oc, {q[j] : j \in 1..n}, "hostfault")
          /\ \/ queue' = SubSeq(q, n + 1, Len(q)) /\ pending' = pd
             \/ /\ n < Len(q)
                /\ queue' = Tail(SubSeq(q, n + 1, Len(q))) /\ pending' = {q[n + 1]}
    BY <1>2, Zenon DEF flush
  <2>2. pd = {}
    BY <1>2
  <2>3. CASE queue' = SubSeq(q, n + 1, Len(q)) /\ pending' = pd
    <3>1. {q[j] : j \in 1..n} \ pending' = {q[j] : j \in 1..n}
      BY <2>2, <2>3
    <3> QED BY <2>1, <2>3, <3>1 DEF Flushed
  <2>4. CASE /\ n < Len(q)
             /\ queue' = Tail(SubSeq(q, n + 1, Len(q))) /\ pending' = {q[n + 1]}
    <3>1. n + 1 \in 0..Len(q) /\ n + 1 \in 1..Len(q) /\ n + 1 > 0
      BY <1>0, <2>4
    <3>2. queue' = SubSeq(q, (n + 1) + 1, Len(q))
      BY <1>0, <2>4, TailOfCut
    <3>3. ASSUME NEW j \in 1..n PROVE q[j] # q[n + 1]
      <4>1. j \in 1..Len(q) /\ j < n + 1
        BY <1>0, <3>1
      <4>2. q[j] < q[n + 1]
        BY <4>1, <3>1 DEF Increasing
      <4>3. q[j] \in Nat /\ q[n + 1] \in Nat
        BY <1>0, <4>1, <3>1, ExecutorAssumption DEF Requests
      <4> QED BY <4>2, <4>3
    <3>4. {q[j] : j \in 1..(n + 1)} = {q[j] : j \in 1..n} \cup {q[n + 1]}
      BY <1>0
    <3>5. {q[j] : j \in 1..(n + 1)} \ pending' = {q[j] : j \in 1..n}
      BY <2>4, <3>3, <3>4
    <3> QED BY <2>1, <2>2, <2>4, <3>1, <3>2, <3>5 DEF Flushed
  <2> QED BY <2>1, <2>3, <2>4
<1> QED BY <1>1, <1>2

\* A step that settles some of what is in flight and ends in flush().
LEMMA FlushServes ==
    ASSUME ExecutorInv, NEW S \in SUBSET pending, NEW v \in Settled,
           NEW STATE ch, NEW STATE ready,
           flush(queue, pending \ S, ch, Settle(outcome, S, v), ready)
    PROVE  Service!Next
<1>1. Typed(queue, pending, outcome) /\ Tracked(queue, pending, outcome)
  BY TypeSplit DEF ExecutorInv, WaitingIsTracked
<1> DEFINE pd == pending \ S
           oc == Settle(outcome, S, v)
<1>2. Typed(queue, pd, oc) /\ Tracked(queue, pd, oc)
  BY <1>1, SettleTracked
<1>3. Increasing(queue) /\ flush(queue, pd, ch, oc, ready)
  BY <1>1 DEF Tracked, Increasing
<1> HIDE DEF pd, oc
<1>4. PICK k \in 0..Len(queue) :
         /\ queue' = SubSeq(queue, k + 1, Len(queue))
         /\ pending' = pd \/ (pd = {} /\ k > 0 /\ pending' = {queue[k]})
         /\ outcome' = Settle(oc, {queue[j] : j \in 1..k} \ pending', "hostfault")
  <2>1. PICK k \in 0..Len(queue) : Flushed(queue, pd, oc, k)
    BY <1>2, <1>3, FlushShape
  <2> QED BY <2>1 DEF Flushed
<1> DEFINE rejected == {queue[j] : j \in 1..k}
<1>5. queue \o <<>> = queue /\ Entries(<<>>) = {}
  BY <1>1, ConcatEmptySeq DEF Typed, Entries
<1>6. pending' = {} \/ pending' = pending \/ (k > 0 /\ pending' = {queue[k]})
  BY <1>1, <1>4, ZenonT(30) DEF pd, Tracked
<1>7. rejected \subseteq Entries(queue) /\ rejected \cap pending = {}
  <2>1. rejected \subseteq Entries(queue)
    BY <1>1, <1>4, LenProperties DEF Entries, Typed
  <2> QED BY <1>1, <2>1 DEF Tracked
<1>8. pending \ pending' = S
  <2>1. CASE pending' = pd
    BY <2>1 DEF pd
  <2>2. CASE pd = {} /\ k > 0 /\ pending' = {queue[k]}
    <3>1. queue[k] \in rejected /\ pending = S
      BY <1>4, <2>2 DEF pd
    <3> QED BY <1>7, <2>2, <3>1
  <2> QED BY <1>4, <2>1, <2>2
<1>9. outcome' = Moved(outcome, pending, queue, k, pending', {}, v)
  BY <1>4, <1>7, <1>8 DEF Moved, Settle, oc
<1> QED
  <2>1. <<>> \in {<<>>} \cup {<<c>> : c \in {d \in Requests : outcome[d] = "none"}}
    OBVIOUS
  <2> QED BY <1>1, <1>4, <1>5, <1>6, <1>9, <2>1, MoveStep

\* A step that settles what is in flight, or part of it, and empties the line or
\* leaves it alone.
LEMMA SettleServes ==
    ASSUME ExecutorInv, NEW v \in Settled, pending' = {} \/ pending' = pending,
           \/ /\ queue' = queue
              /\ outcome' = Settle(outcome, pending \ pending', v)
           \/ /\ queue' = <<>>
              /\ outcome' = Settle(Settle(outcome, pending \ pending', v), Entries(queue), "hostfault")
    PROVE  Service!Next
<1>1. Typed(queue, pending, outcome) /\ Tracked(queue, pending, outcome)
  BY TypeSplit DEF ExecutorInv, WaitingIsTracked
<1>2. /\ queue \o <<>> = queue /\ Entries(<<>>) = {} /\ queue \in Seq(Requests) /\ Len(queue) \in Nat
      /\ <<>> \in {<<>>} \cup {<<c>> : c \in {d \in Requests : outcome[d] = "none"}}
  BY <1>1, ConcatEmptySeq, LenProperties DEF Typed, Entries
<1>3. Entries(queue) \cap pending = {} /\ pending' \subseteq pending
  BY <1>1 DEF Tracked
<1>4. CASE queue' = queue /\ outcome' = Settle(outcome, pending \ pending', v)
  <2>1. queue = SubSeq(queue, 0 + 1, Len(queue)) /\ 0 \in 0..Len(queue)
    BY <1>2, SubSeqFull
  <2>2. outcome' = Moved(outcome, pending, queue, 0, pending', {}, v)
    BY <1>4 DEF Moved, Settle
  <2> QED BY <1>1, <1>2, <1>4, <2>1, <2>2, MoveStep
<1>5. CASE /\ queue' = <<>>
           /\ outcome' = Settle(Settle(outcome, pending \ pending', v), Entries(queue), "hostfault")
  <2>1. <<>> = SubSeq(queue, Len(queue) + 1, Len(queue)) /\ Len(queue) \in 0..Len(queue)
    BY <1>2, SubSeqEmpty
  <2>2. {queue[j] : j \in 1..Len(queue)} = Entries(queue)
    BY DEF Entries
  <2>3. outcome' = Moved(outcome, pending, queue, Len(queue), pending', {}, v)
    BY <1>3, <1>5, <2>2 DEF Moved, Settle
  <2> QED BY <1>1, <1>2, <1>5, <2>1, <2>3, MoveStep
<1> QED BY <1>4, <1>5

\* A call of execute(): rejected at once, queued, or queued and flushed.
LEMMA ExecuteServes ==
    ASSUME ExecutorInv, NEW kind \in OptKinds,
           executeRejected(kind) \/ executeProbe(kind) \/ executeQueued(kind)
    PROVE  Service!Next
<1> USE ExecutorAssumption
<1>1. TypeOK /\ Tracked(queue, pending, outcome) /\ Typed(queue, pending, outcome)
  BY TypeSplit DEF ExecutorInv, WaitingIsTracked
<1>2. nextId \in Requests /\ outcome[nextId] = "none" /\ nextId \in Nat
  <2>1. NewCall(kind)
    BY DEF executeRejected, executeProbe, executeQueued
  <2>2. nextId \in Requests /\ nextId \in Nat /\ nextId >= nextId
    BY <1>1, <2>1 DEF NewCall, TypeOK, Requests
  <2> QED BY <2>2 DEF ExecutorInv
<1> DEFINE joining == <<nextId>>
           q == Append(queue, nextId)
<1>3. /\ queue \o joining = q /\ Entries(joining) = {nextId}
      /\ joining \in {<<>>} \cup {<<c>> : c \in {d \in Requests : outcome[d] = "none"}}
      /\ queue \in Seq(Requests) /\ Len(queue) \in Nat
      /\ q \in Seq(Requests) /\ Len(q) = Len(queue) + 1
  <2>1. queue \in Seq(Requests)
    BY <1>1 DEF Typed
  <2>2. queue \o joining = q
    BY <1>2, <2>1, AppendIsConcat
  <2>3. q \in Seq(Requests) /\ Len(q) = Len(queue) + 1
    BY <1>2, <2>1, AppendProperties
  <2> QED BY <1>2, <2>1, <2>2, <2>3, LenProperties DEF Entries
<1>4. nextId \notin pending /\ nextId \notin Entries(queue)
  BY <1>1, <1>2 DEF Tracked
\* No worker: nothing waits, so the line is empty.
<1>5. ASSUME child = NoChild PROVE pending = {} /\ Entries(queue) = {} /\ queue = <<>>
  <2>1. Entries(queue) = {} /\ pending = {}
    BY <1>1, <1>5 DEF ExecutorInv, WaitingIsTracked, Quiet, Tracked, Typed, Entries
  <2>2. Len(queue) # 0 => queue[1] \in Entries(queue)
    BY <1>3 DEF Entries
  <2> QED BY <1>3, <2>1, <2>2, EmptySeq
<1>6. ASSUME UNCHANGED pending, queue' = <<>>, outcome' = [outcome EXCEPT ![nextId] = "hostfault"],
             child = NoChild
      PROVE  Service!Next
  <2>1. pending = {}
    BY <1>6, <1>5
  <2>2. queue = <<>>
    BY <1>6, <1>5
  <2>3. q = <<nextId>> /\ Len(q) = 1 /\ q[1] = nextId
    BY <1>2, <1>3, <2>2
  <2>4. <<>> = SubSeq(q, 1 + 1, Len(q)) /\ 1 \in 0..Len(q)
    BY <1>3, <2>3, SubSeqEmpty
  <2>5. {q[j] : j \in 1..1} = {nextId}
    BY <2>3
  <2>6. outcome' = Moved(outcome, pending, q, 1, pending', {nextId}, "hostfault")
    BY <1>1, <1>6, <2>1, <2>5 DEF Moved, Typed
  <2>7. "hostfault" \in Settled
    BY DEF Settled
  <2> HIDE DEF q, joining
  <2> QED BY <1>1, <1>3, <1>6, <2>4, <2>6, <2>7, MoveStep
<1>7. CASE executeRejected(kind)
  <2>1. /\ UNCHANGED <<pending, queue>> /\ outcome' = [outcome EXCEPT ![nextId] = "hostfault"]
        /\ child = NoChild
    BY <1>7 DEF executeRejected, ExecutorInv
  <2>2. queue = <<>>
    BY <1>5, <2>1
  <2> QED BY <1>6, <2>1, <2>2
<1>8. CASE executeProbe(kind)
  <2>1. child = NoChild /\ pending' = pending
    BY <1>8 DEF executeProbe, ExecutorInv
  <2>2. CASE Forked(failures, chan, q, [outcome EXCEPT ![nextId] = "waiting"])
    <3>1. queue' = q /\ outcome' = [outcome EXCEPT ![nextId] = "waiting"]
      BY <2>2 DEF Forked
    <3>2. q = SubSeq(q, 0 + 1, Len(q)) /\ 0 \in 0..Len(q)
      BY <1>3, SubSeqFull
    <3>3. outcome' = Moved(outcome, pending, q, 0, pending', {nextId}, "hostfault")
      <4> HIDE DEF q
      <4>1. {q[j] : j \in 1..0} = {} /\ pending \ pending' = {}
        BY <2>1
      <4>2. outcome \in [Requests -> Outcomes]
        BY <1>1 DEF Typed
      <4> QED BY <1>2, <3>1, <4>1, <4>2 DEF Moved
    <3>4. "hostfault" \in Settled
      BY DEF Settled
    <3> HIDE DEF q, joining
    <3> QED BY <1>1, <1>3, <2>1, <3>1, <3>2, <3>3, <3>4, MoveStep
  <2>3. CASE Latched(chan, queue, [outcome EXCEPT ![nextId] = "hostfault"])
    <3>1. Entries(queue) = {}
      BY <1>5, <2>1
    <3>2. queue' = <<>> /\ outcome' = Settle([outcome EXCEPT ![nextId] = "hostfault"], {}, "hostfault")
      BY <2>3, <3>1 DEF Latched
    <3>3. outcome' = [outcome EXCEPT ![nextId] = "hostfault"]
      BY <1>1, <3>2 DEF Settle, Typed
    <3> QED BY <1>6, <2>1, <3>2, <3>3
  <2> QED BY <1>8, <2>2, <2>3 DEF executeProbe
<1>9. CASE executeQueued(kind)
  <2> DEFINE oc == [outcome EXCEPT ![nextId] = "waiting"]
  <2>1. Typed(q, pending, oc) /\ Tracked(q, pending, oc)
    BY <1>1, <1>2, AppendTracked DEF ExecutorInv
  <2>2. Increasing(q)
    BY <2>1 DEF Tracked, Increasing
  <2>3. flush(q, pending, chan, oc, sawReady)
    BY <1>9 DEF executeQueued
  <2>4. oc \in [Requests -> Outcomes] /\ \A i \in Requests : oc[i] = IF i = nextId THEN "waiting" ELSE outcome[i]
    BY <1>1, <2>1 DEF Typed
  <2> HIDE DEF q, oc, joining
  <2>5. PICK k \in 0..Len(q) : Flushed(q, pending, oc, k)
    BY <2>1, <2>2, <2>3, FlushShape
  <2>6. /\ queue' = SubSeq(q, k + 1, Len(q))
        /\ pending' = pending \/ (pending = {} /\ k > 0 /\ pending' = {q[k]})
        /\ outcome' = Settle(oc, {q[j] : j \in 1..k} \ pending', "hostfault")
    BY <2>5 DEF Flushed
  <2>7. outcome' = Moved(outcome, pending, q, k, pending', {nextId}, "hostfault")
    <3>1. pending \ pending' = {}
      BY <2>6
    <3> QED BY <2>4, <2>6, <3>1 DEF Moved, Settle
  <2>8. "hostfault" \in Settled
    BY DEF Settled
  <2> QED BY <1>1, <1>3, <2>5, <2>6, <2>7, <2>8, MoveStep
<1> QED BY <1>7, <1>8, <1>9

\* The exit of the worker: the call in flight settles; a fork keeps the line, the
\* latch rejects it.
LEMMA ExitServes ==
    ASSUME ExecutorInv, NEW how, onExit(how)
    PROVE  Service!Next
<1> DEFINE verdict == IF how = "self" THEN "terminated" ELSE "hostfault"
<1>1. verdict \in Settled
  BY DEF Settled
<1> DEFINE oc == Settle(outcome, pending, verdict)
<1>2. /\ pending' = {} /\ pending \ pending' = pending
      /\ \/ queue' = queue /\ outcome' = oc
         \/ queue' = <<>> /\ outcome' = Settle(oc, Entries(queue), "hostfault")
  <2> HIDE DEF oc, verdict
  <2>1. pending' = {}
    BY DEF onExit
  <2>2. PICK f : afterWorkerLost(f, clearTimer(chan), queue, oc)
    BY DEF onExit, oc, verdict
  <2>3. \/ \E g : Forked(g, clearTimer(chan), queue, oc)
        \/ Latched(clearTimer(chan), queue, oc)
    BY <2>2 DEF afterWorkerLost
  <2> QED BY <2>1, <2>3 DEF Forked, Latched
<1> HIDE DEF verdict
<1> QED BY <1>1, <1>2, SettleServes

\* Every step of the system is a step of the service, or none.
LEMMA NextServes ==
    ASSUME ExecutorInv, [Next]_vars
    PROVE  Service!Next \/ UNCHANGED <<outcome, queue, pending>>
<1>1. Typed(queue, pending, outcome) /\ Tracked(queue, pending, outcome)
  BY TypeSplit DEF ExecutorInv, WaitingIsTracked
\* One call is in flight at most, so that settling it empties the server.
<1>2. ASSUME NEW id \in pending, NEW v \in Settled, queue' = queue, pending' = pending \ {id},
             outcome' = Settle(outcome, {id}, v)
      PROVE  Service!Next
  <2>1. pending = {id}
    BY <1>1 DEF Tracked
  <2>2. pending' = {} /\ pending \ pending' = {id}
    BY <1>2, <2>1
  <2> QED BY <1>2, <2>2, SettleServes
<1>3. /\ {} \in SUBSET pending /\ "hostfault" \in Settled /\ "watchdog" \in Settled
      /\ pending \ {} = pending /\ Settle(outcome, {}, "hostfault") = outcome
  BY <1>1 DEF Settled, Settle, Typed
<1>4. CASE UNCHANGED vars \/ \E w \in Workers : Worker(w)
  BY <1>4 DEF vars, executorVars, promiseVars, Worker
<1>5. CASE Caller
  <2>1. CASE \E kind \in OptKinds :
               executeRejected(kind) \/ executeProbe(kind) \/ executeQueued(kind)
    BY <2>1, ExecuteServes
  <2>2. CASE beginBlock \/ endBlock
    BY <2>2 DEF beginBlock, endBlock, promiseVars
  <2>3. CASE shutdown
    <3>1. /\ pending' = {} /\ queue' = <<>>
          /\ outcome' = Settle(outcome, pending \cup Entries(queue), "hostfault")
      BY <2>3 DEF shutdown
    <3>2. outcome' = Settle(Settle(outcome, pending \ pending', "hostfault"), Entries(queue), "hostfault")
      BY <3>1 DEF Settle
    <3> QED BY <1>3, <3>1, <3>2, SettleServes
  <2> QED BY <1>5, <2>1, <2>2, <2>3 DEF Caller
<1>6. ASSUME NEW w \in Workers, Listen(w)
      PROVE  Service!Next \/ UNCHANGED <<outcome, queue, pending>>
  <2>1. CASE onStaleFrame(w) \/ onReadyAgain(w) \/ onUnknownReply(w)
    BY <2>1 DEF onStaleFrame, onReadyAgain, onUnknownReply, executorVars, promiseVars
  <2>2. CASE onSnapshotAck(w)
    <3> DEFINE ch == onAck(chan, Head(outbox[w]).tok)
    <3>1. flush(queue, pending, ch, outcome, sawReady)
      BY <2>2 DEF onSnapshotAck
    <3> HIDE DEF ch
    <3>2. flush(queue, pending \ {}, ch, Settle(outcome, {}, "hostfault"), sawReady)
      BY <1>3, <3>1
    <3> QED BY <1>3, <3>2, FlushServes
  <2>3. CASE onReady(w)
    <3>1. flush(queue, pending \ {}, chan, Settle(outcome, {}, "hostfault"), TRUE)
      BY <1>3, <2>3 DEF onReady
    <3> QED BY <1>3, <3>1, FlushServes
  <2>4. CASE onBadReply(w)
    BY <1>2, <1>3, <2>4 DEF onBadReply
  <2>5. CASE onReply(w)
    <3> DEFINE id == Head(outbox[w]).id
               v == Head(outbox[w]).type
    <3>1. /\ {id} \in SUBSET pending /\ v \in Settled
          /\ flush(queue, pending \ {id}, chan, Settle(outcome, {id}, v), sawReady)
      BY <2>5 DEF onReply, From, Settled
    <3> HIDE DEF id, v
    <3> QED BY <3>1, FlushServes
  <2> QED BY <1>6, <2>1, <2>2, <2>3, <2>4, <2>5 DEF Listen
<1>7. CASE onChildExit
  BY <1>7, ExitServes DEF onChildExit
<1>8. CASE onDisconnect
  BY <1>8 DEF onDisconnect, promiseVars
<1>9. CASE Timers
  <2>1. CASE onReadyTimeout
    BY <2>1, ExitServes DEF onReadyTimeout
  <2>2. CASE onAckTimeout \/ BackoffElapses
    BY <2>2 DEF onAckTimeout, BackoffElapses, promiseVars
  <2>3. ASSUME NEW id \in Requests, onWatchdog(id) PROVE Service!Next
    BY <1>2, <1>3, <2>3 DEF onWatchdog
  <2> QED BY <1>9, <2>1, <2>2, <2>3 DEF Timers
<1> QED BY <1>4, <1>5, <1>6, <1>7, <1>8, <1>9 DEF Next, Executor

\* ProcessExecutor with its workers is a first-come first-served queue with one
\* server that serves no call twice, whatever crashes, times out, latches or is
\* shut down, for every number of calls, workers and blocks.
THEOREM ExecutorRefinesService == Spec => ImplementsService
<1>1. Init => Service!Init
  BY DEF Init, ExecutorInit, Service!Init
<1>2. ExecutorInv /\ [Next]_vars => [Service!Next]_<<outcome, queue, pending>>
  BY NextServes
<1>3. Spec => []ExecutorInv
  BY InitInv, NextInv, PTL DEF Spec
<1> QED BY <1>1, <1>2, <1>3, PTL DEF Spec, ImplementsService, Service!Spec, Service!svars

=============================================================================
