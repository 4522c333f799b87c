---------------------------- MODULE WorkerProofs ----------------------------
(***************************************************************************)
(* Proofs about ExecutorSystem that follow the calls through the IPC       *)
(* channels into the workers: contracts run once and in order, results are *)
(* genuine, nothing goes to a worker the executor has given up on.         *)
(***************************************************************************)
EXTENDS ExecutorProofs

(***************************************************************************)
(* What is on the wire.                                                    *)
(***************************************************************************)
FrameTypes == {"init", "beginBlock", "endBlock", "snapshot", "execute"}
ReplyTypes == {"ready", "snapshotAck", "result", "hostfault"}
Frames  == [type : FrameTypes, id : Nat, ref : Nat, val : Nat]
Replies == [type : ReplyTypes, id : Nat, tok : Nat]
Jobs    == [id : Nat, ref : Nat, val : Nat, phase : {"chained", "running"}]
Starts  == [id : Nat, data : Nat, w : Workers]

\* The types of the variables that TypeOK leaves out.
Wires ==
    /\ inbox \in [Workers -> Seq(Frames)]
    /\ outbox \in [Workers -> Seq(Replies)]
    /\ jobs \in [Workers -> Seq(Jobs)]
    /\ wsnap \in [Workers -> [token : Nat, val : Nat]]
    /\ ran \in Seq(Starts)
    /\ finished \subseteq Nat

\* The executions a worker holds: on their way to it, or in its chain.
ExecFrames(box) == {f \in Entries(box) : f.type = "execute"}
Chained(js) == {j \in Entries(js) : j.phase = "chained"}
HoldsOf(box, js) == {f.id : f \in ExecFrames(box)} \cup {j.id : j \in Entries(js)}
WaitsOf(box, js) == {f.id : f \in ExecFrames(box)} \cup {j.id : j \in Chained(js)}
ExecOnce(box) ==
    \A a, b \in 1..Len(box) : box[a].type = "execute" /\ box[b].type = "execute" => a = b

\* The calls a worker has answered with the token of their dispatch.
Genuine(r) == r.type \in {"result", "hostfault"} /\ r.tok = newDispatchToken(r.id)
Answered(box) == {r.id : r \in {x \in Entries(box) : Genuine(x)}}

Held(w) == HoldsOf(inbox[w], jobs[w])
Unstarted(w) == WaitsOf(inbox[w], jobs[w])
RanIds == {e.id : e \in Entries(ran)}

(***************************************************************************)
(* The dispatch gate.                                                      *)
(***************************************************************************)
GateInv ==
    /\ child \in {NoChild, gen}
    /\ sawReady => everReady
    /\ pending # {} => everReady
    /\ chan.sent => everReady
    /\ child # NoChild /\ killed[child] => everReady /\ ~sawReady
    /\ \A w \in Workers : w > gen => ~killed[w] /\ wstate[w] = "absent"

\* A process that is not there holds nothing; a worker has one execution at most.
Orderly(w) ==
    /\ ~Alive(w) => inbox[w] = <<>> /\ jobs[w] = <<>>
    /\ ExecOnce(inbox[w])
    /\ Len(jobs[w]) <= 1
    /\ jobs[w] # <<>> => ExecFrames(inbox[w]) = {}

\* What the workers hold is what the executor believes they hold, except that a
\* worker it has given up on may still work on the call it was killed for.
HoldInv ==
    /\ \A w \in Workers : Orderly(w)
    /\ \A v, w \in Workers : v = w \/ Held(v) = {} \/ Held(w) = {}
    /\ child # NoChild \/ broken => \A w \in Workers \ {child} : Held(w) = {}
    /\ child # NoChild /\ (~everReady \/ sawReady \/ pending # {}) => Held(child) \subseteq pending

\* Everything dispatched so far comes before everything still queued.
Behind(i) == i \in Requests /\ i < nextId /\ \A q \in Entries(queue) : i < q

OrderInv ==
    /\ \A i \in finished \cup RanIds : Behind(i)
    /\ \A w \in Workers : \A i \in Held(w) \cup Answered(outbox[w]) : Behind(i)
    /\ \A v, w \in Workers : Held(v) \cap (finished \cup Answered(outbox[w])) = {}
    /\ \A w \in Workers : \A i \in Unstarted(w), e \in RanIds : e < i
    /\ RunInOrderOnce

AnswerInv ==
    /\ \A w \in Workers : \A r \in Entries(outbox[w]) :
          r.type = "result" /\ Genuine(r) => r.id \in finished
    /\ ResultsAreGenuine


(***************************************************************************)
(* Channels as sequences.                                                  *)
(***************************************************************************)
\* Taking the first element of a channel.
LEMMA TakeFirst ==
    ASSUME NEW S, NEW s \in Seq(S), s # <<>>
    PROVE  /\ Tail(s) \in Seq(S) /\ Head(s) \in S
           /\ Len(s) \in Nat /\ Len(s) > 0 /\ Len(Tail(s)) = Len(s) - 1
           /\ Head(s) = s[1] /\ \A i \in 1..Len(Tail(s)) : Tail(s)[i] = s[i + 1]
           /\ Entries(s) = {Head(s)} \cup Entries(Tail(s))
<1>1. /\ Tail(s) \in Seq(S) /\ Len(s) \in Nat /\ Len(s) > 0 /\ Len(Tail(s)) = Len(s) - 1
      /\ Head(s) = s[1] /\ \A i \in 1..Len(Tail(s)) : Tail(s)[i] = s[i + 1]
  BY HeadTailProperties, EmptySeq, LenProperties
<1>2. Head(s) \in S
  BY <1>1, ElementOfSeq
<1>3. Entries(s) \subseteq {Head(s)} \cup Entries(Tail(s))
  <2> SUFFICES ASSUME NEW i \in 1..Len(s) PROVE s[i] \in {Head(s)} \cup Entries(Tail(s))
    BY DEF Entries
  <2>1. CASE i = 1
    BY <1>1, <2>1
  <2>2. CASE i # 1
    <3>1. i - 1 \in 1..Len(Tail(s)) /\ Tail(s)[i - 1] = s[(i - 1) + 1] /\ (i - 1) + 1 = i
      BY <1>1, <2>2
    <3> QED BY <3>1 DEF Entries
  <2> QED BY <2>1, <2>2
<1>4. {Head(s)} \cup Entries(Tail(s)) \subseteq Entries(s)
  <2>1. 1 \in 1..Len(s) /\ \A i \in 1..Len(Tail(s)) : i + 1 \in 1..Len(s)
    BY <1>1
  <2> QED BY <1>1, <2>1 DEF Entries
<1> QED BY <1>1, <1>2, <1>3, <1>4

\* One more element at the end of a channel.
LEMMA PutLast ==
    ASSUME NEW S, NEW s \in Seq(S), NEW x \in S
    PROVE  /\ Append(s, x) \in Seq(S) /\ Len(Append(s, x)) = Len(s) + 1 /\ Len(s) \in Nat
           /\ \A i \in 1..Len(s) : Append(s, x)[i] = s[i]
           /\ Append(s, x)[Len(s) + 1] = x
           /\ Entries(Append(s, x)) = Entries(s) \cup {x}
<1>1. /\ Append(s, x) \in Seq(S) /\ Len(Append(s, x)) = Len(s) + 1 /\ Len(s) \in Nat
      /\ \A i \in 1..Len(s) : Append(s, x)[i] = s[i]
      /\ Append(s, x)[Len(s) + 1] = x
  BY AppendProperties, LenProperties
<1>2. 1..(Len(s) + 1) = (1..Len(s)) \cup {Len(s) + 1}
  BY <1>1
<1> QED BY <1>1, <1>2 DEF Entries

\* The elements of a channel have its type.
LEMMA Listed ==
    ASSUME NEW S, NEW s \in Seq(S)
    PROVE  Entries(s) \subseteq S
<1>1. \A i \in 1..Len(s) : s[i] \in S
  BY ElementOfSeq
<1> QED BY <1>1 DEF Entries

\* A worker takes a frame: it holds no more than before, and nothing else when the
\* frame is its one execution.
LEMMA BoxTaken ==
    ASSUME NEW s \in Seq(Frames), s # <<>>, ExecOnce(s)
    PROVE  /\ ExecOnce(Tail(s))
           /\ ExecFrames(Tail(s)) \subseteq ExecFrames(s)
           /\ Head(s).type = "execute" => Head(s) \in ExecFrames(s) /\ ExecFrames(Tail(s)) = {}
<1>1. /\ Tail(s) \in Seq(Frames) /\ Head(s) \in Frames
      /\ Len(s) \in Nat /\ Len(s) > 0 /\ Len(Tail(s)) = Len(s) - 1
      /\ Head(s) = s[1] /\ \A i \in 1..Len(Tail(s)) : Tail(s)[i] = s[i + 1]
      /\ Entries(s) = {Head(s)} \cup Entries(Tail(s))
  BY TakeFirst
<1> DEFINE t == Tail(s)
<1>2. \A i \in 1..Len(t) : i + 1 \in 1..Len(s) /\ i + 1 # 1
  BY <1>1
<1>3. 1 \in 1..Len(s)
  BY <1>1
<1>4. ExecOnce(t)
  <2> SUFFICES ASSUME NEW a \in 1..Len(t), NEW b \in 1..Len(t),
                      t[a].type = "execute", t[b].type = "execute"
               PROVE  a = b
    BY DEF ExecOnce
  <2>1. a + 1 = b + 1
    BY <1>1, <1>2 DEF ExecOnce
  <2> QED BY <2>1, <1>1
<1>5. ASSUME Head(s).type = "execute" PROVE ExecFrames(t) = {}
  <2> SUFFICES ASSUME NEW i \in 1..Len(t), t[i].type = "execute" PROVE FALSE
    BY DEF ExecFrames, Entries
  <2>1. i + 1 = 1
    BY <1>1, <1>2, <1>3, <1>5 DEF ExecOnce
  <2> QED BY <2>1, <1>2
<1> QED BY <1>1, <1>4, <1>5 DEF ExecFrames

\* The parent sends a frame.
LEMMA BoxPosted ==
    ASSUME NEW s \in Seq(Frames), NEW f \in Frames, ExecOnce(s),
           f.type = "execute" => ExecFrames(s) = {}
    PROVE  /\ ExecOnce(Append(s, f))
           /\ ExecFrames(Append(s, f)) =
                ExecFrames(s) \cup (IF f.type = "execute" THEN {f} ELSE {})
<1> DEFINE t == Append(s, f)
<1>1. /\ t \in Seq(Frames) /\ Len(t) = Len(s) + 1 /\ Len(s) \in Nat
      /\ \A i \in 1..Len(s) : t[i] = s[i]
      /\ t[Len(s) + 1] = f
      /\ Entries(t) = Entries(s) \cup {f}
  BY PutLast
<1> HIDE DEF t
<1>2. \A i \in 1..Len(t) : i \in 1..Len(s) \/ i = Len(s) + 1
  BY <1>1
<1>3. \A i \in 1..Len(s) : s[i].type = "execute" => s[i] \in ExecFrames(s)
  BY DEF ExecFrames, Entries
<1>4. ExecOnce(t)
  <2> SUFFICES ASSUME NEW a \in 1..Len(t), NEW b \in 1..Len(t),
                      t[a].type = "execute", t[b].type = "execute"
               PROVE  a = b
    BY DEF ExecOnce
  <2>1. CASE f.type = "execute"
    BY <1>1, <1>2, <1>3, <2>1
  <2>2. CASE f.type # "execute"
    <3>1. a \in 1..Len(s) /\ b \in 1..Len(s) /\ s[a].type = "execute" /\ s[b].type = "execute"
      BY <1>1, <1>2, <2>2
    <3> QED BY <3>1 DEF ExecOnce
  <2> QED BY <2>1, <2>2
<1> QED BY <1>1, <1>4 DEF ExecFrames, t

(***************************************************************************)
(* What a step of the executor sends.                                      *)
(***************************************************************************)
Posted(f) ==
    \/ inbox' = inbox
    \/ child # NoChild /\ Alive(child) /\ inbox' = [inbox EXCEPT ![child] = Append(@, f)]

Notified == \E f \in Frames : f.type # "execute" /\ Posted(f)
Dispatched(id) == \E f \in Frames : f.type = "execute" /\ f.id = id /\ Posted(f)

\* send() of one frame.
LEMMA SendPosts ==
    ASSUME Wires, child \in Workers \cup {NoChild}, NEW f \in Frames, SendFrames(<<f>>)
    PROVE  Posted(f)
<1>1. CASE inbox' = inbox
  BY <1>1 DEF Posted
<1>2. CASE /\ child # NoChild /\ Alive(child)
           /\ inbox' = [inbox EXCEPT ![child] = @ \o <<f>>]
  <2>1. inbox[child] \in Seq(Frames)
    BY <1>2 DEF Wires
  <2>2. inbox[child] \o <<f>> = Append(inbox[child], f)
    BY <2>1, AppendIsConcat
  <2> QED BY <1>2, <2>2 DEF Posted
<1> QED BY <1>1, <1>2 DEF SendFrames

\* A step that sends nothing.
LEMMA SilentNotified ==
    ASSUME inbox' = inbox PROVE Notified
<1>1. Frame("init", 0, 0, 0) \in Frames /\ Frame("init", 0, 0, 0).type # "execute"
  BY DEF Frames, Frame, FrameTypes
<1> QED BY <1>1 DEF Notified, Posted

\* flush() sends at most one frame, and an execute frame only through the open
\* gate with nothing in flight, for the first call that crosses.
Flushes(Q, pd, ready) ==
    \/ pending' = pd /\ Notified
    \/ /\ pd = {} /\ ready
       /\ \E id \in Q : /\ pending' = {id} /\ Dispatched(id)
                        /\ \A x \in Entries(queue') : id < x

\* flush() is one of the two, on well-typed channels.
LEMMA FlushWires ==
    ASSUME NEW STATE q, NEW STATE pd, NEW STATE ch, NEW STATE oc, NEW STATE ready,
           Typed(q, pd, oc), Increasing(q), ch \in Channels, nextTok \in Nat,
           opts' \in [Requests -> [kind : AllOptKinds, data : Nat]],
           Wires, child \in Workers \cup {NoChild},
           flush(q, pd, ch, oc, ready)
    PROVE  /\ Flushes(Entries(q), pd, ready)
           /\ Entries(queue') \subseteq Entries(q)
           /\ chan'.sent => ch.sent \/ ready
           /\ \A i \in Requests : outcome'[i] = oc[i] \/ outcome'[i] = "hostfault"
<1>1. CASE pd # {} \/ child = NoChild \/ ~ready \/ ~connected
  <2>1. queue' = q /\ pending' = pd /\ chan' = ch /\ outcome' = oc /\ inbox' = inbox
    BY <1>1 DEF flush
  <2> QED BY <2>1, SilentNotified DEF Flushes
<1>2. CASE ~(pd # {} \/ child = NoChild \/ ~ready \/ ~connected)
  <2>1. PICK k \in 0..Len(q) :
          /\ outcome' = Settle(oc, {q[j] : j \in 1..k}, "hostfault")
          /\ \/ /\ queue' = SubSeq(q, k + 1, Len(q)) /\ pending' = pd /\ inbox' = inbox
             \/ /\ k < Len(q)
                /\ queue' = SubSeq(q, k + 1, Len(q)) /\ pending' = pd
                /\ SendFrames(HeldFrames(ch, opts'[q[k + 1]], inBlock, nextTok))
             \/ /\ k < Len(q)
                /\ queue' = Tail(SubSeq(q, k + 1, Len(q))) /\ pending' = {q[k + 1]}
                /\ SendFrames(<<ExecuteFrame(ch, q[k + 1], opts'[q[k + 1]])>>)
    BY <1>2, Zenon DEF flush
  <2>2. q \in Seq(Requests) /\ pd = {} /\ ready /\ Len(q) \in Nat
    BY <1>2, LenProperties DEF Typed
  <2>3. \A i \in Requests : outcome'[i] = oc[i] \/ outcome'[i] = "hostfault"
    BY <2>1 DEF Settle
  <2>4. /\ Entries(SubSeq(q, k + 1, Len(q))) \subseteq Entries(q)
        /\ SubSeq(q, k + 1, Len(q)) \in Seq(Requests)
    BY <2>2, Cut
  <2>5. ASSUME k < Len(q)
        PROVE  /\ q[k + 1] \in Requests /\ q[k + 1] \in Nat /\ q[k + 1] \in Entries(q)
               /\ opts'[q[k + 1]].data \in Nat
    <3>1. k + 1 \in 1..Len(q)
      BY <2>2, <2>5
    <3>2. q[k + 1] \in Requests /\ q[k + 1] \in Entries(q)
      BY <2>2, <3>1, ElementOfSeq DEF Entries
    <3> QED BY <3>2, ExecutorAssumption DEF Requests
  <2>6. CASE queue' = SubSeq(q, k + 1, Len(q)) /\ pending' = pd /\ inbox' = inbox
    BY <2>2, <2>3, <2>4, <2>6, SilentNotified DEF Flushes
  <2>7. CASE /\ k < Len(q)
             /\ queue' = SubSeq(q, k + 1, Len(q)) /\ pending' = pd
             /\ SendFrames(HeldFrames(ch, opts'[q[k + 1]], inBlock, nextTok))
    <3> DEFINE o == opts'[q[k + 1]]
               new == HeldChannel(ch, o, inBlock, nextTok)
               f == Frame("snapshot", 0, new.token, new.snapshot)
    <3>1. o.data \in Nat
      BY <2>5, <2>7
    <3> HIDE DEF o
    <3>2. new.token \in Nat /\ new.snapshot \in Nat
      BY <3>1 DEF HeldChannel, Channels
    <3>3. f \in Frames /\ f.type # "execute"
      BY <3>2 DEF Frames, Frame, FrameTypes
    <3>4. HeldFrames(ch, o, inBlock, nextTok) = <<>> \/ HeldFrames(ch, o, inBlock, nextTok) = <<f>>
      BY DEF HeldFrames
    <3> HIDE DEF f, new
    <3>5. CASE SendFrames(<<>>)
      <4>1. inbox' = inbox
        <5>1. CASE child # NoChild /\ inbox' = [inbox EXCEPT ![child] = @ \o <<>>]
          <6>1. inbox[child] \o <<>> = inbox[child] /\ inbox \in [Workers -> Seq(Frames)]
            BY <5>1, ConcatEmptySeq DEF Wires
          <6> QED BY <5>1, <6>1
        <5> QED BY <3>5, <5>1 DEF SendFrames
      <4> QED BY <2>2, <2>3, <2>4, <2>7, <4>1, SilentNotified DEF Flushes
    <3>6. CASE SendFrames(<<f>>)
      <4>1. Notified
        BY <3>3, <3>6, SendPosts DEF Notified
      <4> QED BY <2>2, <2>3, <2>4, <2>7, <4>1 DEF Flushes
    <3> QED BY <2>7, <3>4, <3>5, <3>6 DEF o
  <2>8. CASE /\ k < Len(q)
             /\ queue' = Tail(SubSeq(q, k + 1, Len(q))) /\ pending' = {q[k + 1]}
             /\ SendFrames(<<ExecuteFrame(ch, q[k + 1], opts'[q[k + 1]])>>)
    <3> DEFINE id == q[k + 1]
               o == opts'[id]
               f == ExecuteFrame(ch, id, o)
    <3>1. id \in Nat /\ id \in Entries(q) /\ o.data \in Nat /\ ch.token \in Nat
      BY <2>5, <2>8 DEF Channels
    <3> HIDE DEF o
    <3>2. f \in Frames /\ f.type = "execute" /\ f.id = id
      <4> HIDE DEF id
      <4> QED BY <3>1 DEF ExecuteFrame, Frame, Frames, FrameTypes, NoToken
    <3> HIDE DEF f
    <3>3. Dispatched(id)
      BY <2>8, <3>2, SendPosts DEF Dispatched, f, o
    <3>4. k + 1 \in 0..Len(q) /\ queue' = SubSeq(q, (k + 1) + 1, Len(q))
      BY <2>2, <2>8, TailOfCut
    <3>5. /\ Entries(queue') = Entries(q) \ {q[j] : j \in 1..(k + 1)}
          /\ queue' \in Seq(Requests)
      BY <2>2, <3>4, Cut
    <3>6. ASSUME NEW x \in Entries(queue') PROVE id < x
      <4>1. PICK i \in 1..Len(q) : x = q[i] /\ i \notin 1..(k + 1)
        BY <3>5 DEF Entries
      <4>2. k + 1 \in 1..Len(q) /\ k + 1 < i
        BY <2>2, <2>8, <4>1
      <4> QED BY <4>1, <4>2 DEF Increasing
    <3> QED BY <2>2, <2>3, <2>8, <3>1, <3>3, <3>5, <3>6 DEF Flushes
  <2> QED BY <2>1, <2>6, <2>7, <2>8
<1> QED BY <1>1, <1>2

\* A frame sent to the worker in place: what the workers hold afterwards.
LEMMA PostedHolds ==
    ASSUME Wires, child \in Workers \cup {NoChild}, \A w \in Workers : Orderly(w),
           UNCHANGED <<jobs, wstate>>, NEW f \in Frames, Posted(f),
           f.type = "execute" => child # NoChild /\ Held(child) = {}
    PROVE  /\ inbox' \in [Workers -> Seq(Frames)]
           /\ \A w \in Workers : Orderly(w)'
           /\ \A w \in Workers :
                LET new == IF w = child /\ f.type = "execute" THEN {f.id} ELSE {} IN
                /\ Held(w)' \subseteq Held(w) \cup new
                /\ Unstarted(w)' \subseteq Unstarted(w) \cup new
<1>1. CASE inbox' = inbox
  BY <1>1 DEF Wires, Orderly, Held, Unstarted, Alive
<1>2. CASE /\ child # NoChild /\ Alive(child)
           /\ inbox' = [inbox EXCEPT ![child] = Append(@, f)]
  <2>1. /\ child \in Workers /\ inbox[child] \in Seq(Frames) /\ jobs[child] \in Seq(Jobs)
        /\ inbox \in [Workers -> Seq(Frames)]
    BY <1>2 DEF Wires
  <2>2. \A w \in Workers : inbox'[w] = IF w = child THEN Append(inbox[child], f) ELSE inbox[w]
    BY <1>2, <2>1
  <2>3. Append(inbox[child], f) \in Seq(Frames)
    BY <2>1, PutLast
  <2>4. inbox' \in [Workers -> Seq(Frames)]
    BY <1>2, <2>1, <2>3
  <2>5. ASSUME f.type = "execute" PROVE ExecFrames(inbox[child]) = {} /\ jobs[child] = <<>>
    <3>1. Held(child) = {}
      BY <2>5
    <3>2. ExecFrames(inbox[child]) = {} /\ Entries(jobs[child]) = {}
      BY <3>1 DEF Held, HoldsOf
    <3>3. jobs[child] # <<>> => Head(jobs[child]) \in Entries(jobs[child])
      BY <2>1, TakeFirst
    <3> QED BY <3>2, <3>3
  <2>6. ExecOnce(inbox[child]) /\ Len(jobs[child]) <= 1
        /\ (jobs[child] # <<>> => ExecFrames(inbox[child]) = {})
    BY <2>1 DEF Orderly
  <2>7. /\ ExecOnce(Append(inbox[child], f))
        /\ ExecFrames(Append(inbox[child], f)) =
                ExecFrames(inbox[child]) \cup (IF f.type = "execute" THEN {f} ELSE {})
    BY <2>1, <2>5, <2>6, BoxPosted
  <2>8. ASSUME NEW w \in Workers
        PROVE  LET new == IF w = child /\ f.type = "execute" THEN {f.id} ELSE {} IN
                /\ Orderly(w)'
                /\ Held(w)' \subseteq Held(w) \cup new
                /\ Unstarted(w)' \subseteq Unstarted(w) \cup new
    <3>1. CASE w # child
      <4>1. inbox'[w] = inbox[w] /\ Orderly(w)
        BY <2>2, <3>1
      <4> QED BY <3>1, <4>1 DEF Orderly, Held, Unstarted, Alive
    <3>2. CASE w = child
      <4>1. inbox'[w] = Append(inbox[child], f)
        BY <2>2, <3>2
      <4>2. Orderly(w)'
        BY <1>2, <2>5, <2>6, <2>7, <3>2, <4>1 DEF Orderly, Alive
      <4>3. Held(w)' \subseteq Held(w) \cup (IF f.type = "execute" THEN {f.id} ELSE {})
        BY <2>7, <3>2, <4>1 DEF Held, HoldsOf
      <4>4. Unstarted(w)' \subseteq Unstarted(w) \cup (IF f.type = "execute" THEN {f.id} ELSE {})
        BY <2>7, <3>2, <4>1 DEF Unstarted, WaitsOf
      <4> QED BY <3>2, <4>2, <4>3, <4>4
    <3> QED BY <3>1, <3>2
  <2> QED BY <2>4, <2>8
<1> QED BY <1>1, <1>2 DEF Posted

\* A notice adds nothing to what the workers hold.
LEMMA NotifiedHolds ==
    ASSUME Wires, child \in Workers \cup {NoChild}, \A w \in Workers : Orderly(w),
           UNCHANGED <<jobs, wstate>>, Notified
    PROVE  /\ inbox' \in [Workers -> Seq(Frames)]
           /\ \A w \in Workers : /\ Orderly(w)' /\ Held(w)' \subseteq Held(w)
                                 /\ Unstarted(w)' \subseteq Unstarted(w)
<1>1. PICK f \in Frames : f.type # "execute" /\ Posted(f)
  BY DEF Notified
<1> QED BY <1>1, PostedHolds

\* A dispatch adds its call to what the worker holds.
LEMMA DispatchedHolds ==
    ASSUME Wires, child \in Workers, child # NoChild, \A w \in Workers : Orderly(w),
           UNCHANGED <<child, jobs, wstate>>, Held(child) = {}, NEW id, Dispatched(id)
    PROVE  /\ inbox' \in [Workers -> Seq(Frames)]
           /\ \A w \in Workers : Orderly(w)'
           /\ \A w \in Workers \ {child} : /\ Held(w)' \subseteq Held(w)
                                           /\ Unstarted(w)' \subseteq Unstarted(w)
           /\ Held(child)' \subseteq {id} /\ Unstarted(child)' \subseteq Unstarted(child) \cup {id}
<1>1. PICK f \in Frames : f.type = "execute" /\ f.id = id /\ Posted(f)
  BY DEF Dispatched
<1>2. /\ inbox' \in [Workers -> Seq(Frames)]
      /\ \A w \in Workers : Orderly(w)'
      /\ \A w \in Workers :
           LET new == IF w = child /\ f.type = "execute" THEN {f.id} ELSE {} IN
           /\ Held(w)' \subseteq Held(w) \cup new
           /\ Unstarted(w)' \subseteq Unstarted(w) \cup new
  BY <1>1, PostedHolds
<1>3. \A w \in Workers \ {child} : Held(w)' \subseteq Held(w) /\ Unstarted(w)' \subseteq Unstarted(w)
  BY <1>2
<1>4. inbox'[child] \in Seq(Frames)
  BY <1>2
<1>5. HoldsOf(inbox'[child], jobs'[child]) \subseteq {id}
  BY <1>1, <1>2 DEF Held
<1>6. WaitsOf(inbox'[child], jobs'[child]) \subseteq Unstarted(child) \cup {id}
  BY <1>1, <1>2 DEF Unstarted
<1> QED BY <1>2, <1>3, <1>5, <1>6 DEF Held, Unstarted

(***************************************************************************)
(* What a step of a worker does.                                           *)
(***************************************************************************)
\* The chain of a worker is its one execution.
LEMMA OneJob ==
    ASSUME NEW s \in Seq(Jobs), s # <<>>, Len(s) <= 1
    PROVE  /\ Tail(s) = <<>> /\ Entries(<<>>) = {} /\ Entries(s) = {Head(s)}
           /\ Head(s) \in Jobs
<1>1. /\ Tail(s) \in Seq(Jobs) /\ Head(s) \in Jobs
      /\ Len(s) \in Nat /\ Len(s) > 0 /\ Len(Tail(s)) = Len(s) - 1
      /\ Entries(s) = {Head(s)} \cup Entries(Tail(s))
  BY TakeFirst
<1>2. Len(Tail(s)) = 0
  BY <1>1
<1>3. Tail(s) = <<>>
  BY <1>1, <1>2, EmptySeq
<1>4. Entries(<<>>) = {}
  BY DEF Entries
<1> QED BY <1>1, <1>3, <1>4

\* The load of worker w: its frames and its chain, now and after the step.
Lightens(w) ==
    /\ Orderly(w)' /\ Held(w)' \subseteq Held(w) /\ Unstarted(w)' \subseteq Unstarted(w)

\* The worker takes a frame that is no execution.
LEMMA TakesNotice ==
    ASSUME Wires, NEW w \in Workers, Orderly(w), Alive(w), Alive(w)', jobs' = jobs,
           inbox[w] # <<>>, inbox' = [inbox EXCEPT ![w] = Tail(@)]
    PROVE  Lightens(w) /\ inbox' \in [Workers -> Seq(Frames)]
<1>1. inbox[w] \in Seq(Frames) /\ inbox \in [Workers -> Seq(Frames)]
  BY DEF Wires
<1>2. inbox'[w] = Tail(inbox[w]) /\ Tail(inbox[w]) \in Seq(Frames)
  BY <1>1, TakeFirst
<1>3. ExecOnce(inbox[w])
  BY DEF Orderly
<1>4. ExecOnce(inbox'[w]) /\ ExecFrames(inbox'[w]) \subseteq ExecFrames(inbox[w])
  BY <1>1, <1>2, <1>3, BoxTaken
<1>5. Orderly(w)'
  BY <1>4 DEF Orderly
<1>6. Held(w)' \subseteq Held(w) /\ Unstarted(w)' \subseteq Unstarted(w)
  BY <1>4 DEF Held, Unstarted, HoldsOf, WaitsOf
<1> QED BY <1>1, <1>2, <1>5, <1>6 DEF Lightens

\* The worker's execution ends, or the worker does.
LEMMA LosesJob ==
    ASSUME Wires, NEW w \in Workers, Orderly(w), jobs[w] # <<>>, wstate' = wstate,
           inbox' = inbox, jobs' = [jobs EXCEPT ![w] = Tail(@)]
    PROVE  /\ Lightens(w) /\ jobs' \in [Workers -> Seq(Jobs)]
           /\ Held(w)' = {} /\ Head(jobs[w]).id \in Held(w) /\ Head(jobs[w]).id \in Nat
<1>1. jobs[w] \in Seq(Jobs) /\ jobs \in [Workers -> Seq(Jobs)] /\ Len(jobs[w]) <= 1
  BY DEF Wires, Orderly
<1>2. /\ Tail(jobs[w]) = <<>> /\ Entries(<<>>) = {} /\ Entries(jobs[w]) = {Head(jobs[w])}
      /\ Head(jobs[w]) \in Jobs
  BY <1>1, OneJob
<1>3. jobs'[w] = <<>> /\ <<>> \in Seq(Jobs)
  BY <1>1, <1>2
<1>4. jobs' \in [Workers -> Seq(Jobs)]
  BY <1>1, <1>2, <1>3
<1>5. ExecFrames(inbox[w]) = {}
  BY DEF Orderly
<1>6. Held(w)' = {} /\ Unstarted(w)' = {}
  BY <1>2, <1>3, <1>5 DEF Held, Unstarted, HoldsOf, WaitsOf, Chained
<1>7. Head(jobs[w]).id \in Held(w) /\ Head(jobs[w]).id \in Nat
  BY <1>2 DEF Held, HoldsOf, Jobs
<1>8. Len(jobs'[w]) <= 1
  <2>1. Len(<<>>) = 0 /\ 0 <= 1
    OBVIOUS
  <2> QED BY <1>3, <2>1
<1>9. Orderly(w)'
  BY <1>3, <1>5, <1>8 DEF Orderly, Alive
<1> QED BY <1>4, <1>6, <1>7, <1>9 DEF Lightens

\* An execute frame becomes the worker's chain.
LEMMA ChainsJob ==
    ASSUME Wires, TypeOK, NEW w \in Workers, Orderly(w), handleExecuteMessage(w)
    PROVE  /\ Lightens(w)
           /\ jobs' \in [Workers -> Seq(Jobs)] /\ inbox' \in [Workers -> Seq(Frames)]
<1> DEFINE f == Head(inbox[w])
           j == Job(f, "chained")
<1>1. /\ inbox[w] # <<>> /\ f.type = "execute" /\ inbox' = [inbox EXCEPT ![w] = Tail(@)]
      /\ jobs' = [jobs EXCEPT ![w] = Append(@, j)] /\ wstate' = wstate
  BY DEF handleExecuteMessage, Got
<1>2. /\ inbox \in [Workers -> Seq(Frames)] /\ jobs \in [Workers -> Seq(Jobs)]
      /\ inbox[w] \in Seq(Frames) /\ jobs[w] \in Seq(Jobs) /\ ExecOnce(inbox[w])
  BY DEF Wires, Orderly
<1>3. f \in Frames /\ Tail(inbox[w]) \in Seq(Frames)
  BY <1>1, <1>2, TakeFirst
<1>4. /\ ExecOnce(Tail(inbox[w])) /\ ExecFrames(Tail(inbox[w])) = {} /\ f \in ExecFrames(inbox[w])
  BY <1>1, <1>2, BoxTaken
<1>5. jobs[w] = <<>>
  BY <1>4 DEF Orderly
<1>6. j \in Jobs /\ j.id = f.id
  BY <1>3 DEF Job, Jobs, Frames
<1> HIDE DEF j, f
<1>7. /\ Append(jobs[w], j) \in Seq(Jobs) /\ Len(Append(jobs[w], j)) = Len(jobs[w]) + 1
      /\ Entries(Append(jobs[w], j)) = Entries(jobs[w]) \cup {j}
  BY <1>2, <1>6, PutLast
<1>8. Len(jobs[w]) = 0 /\ Entries(jobs[w]) = {}
  BY <1>5 DEF Entries
<1>9. inbox'[w] = Tail(inbox[w]) /\ jobs'[w] = Append(jobs[w], j)
  BY <1>1, <1>2
<1>10. jobs' \in [Workers -> Seq(Jobs)] /\ inbox' \in [Workers -> Seq(Frames)]
  BY <1>1, <1>2, <1>3, <1>7
<1>11. Alive(w)
  BY DEF handleExecuteMessage, Alive
<1>12. Orderly(w)'
  BY <1>1, <1>4, <1>7, <1>8, <1>9, <1>11 DEF Orderly, Alive
<1>13. Held(w)' \subseteq {f.id} /\ Unstarted(w)' \subseteq {f.id}
  BY <1>4, <1>6, <1>7, <1>8, <1>9 DEF Held, Unstarted, HoldsOf, WaitsOf, Chained
<1>14. f.id \in Held(w) /\ f.id \in Unstarted(w)
  BY <1>4 DEF Held, Unstarted, HoldsOf, WaitsOf
<1> QED BY <1>10, <1>12, <1>13, <1>14 DEF Lightens

\* The chained execution starts its contract.
LEMMA StartsJob ==
    ASSUME Wires, NEW w \in Workers, Orderly(w), StartContract(w)
    PROVE  /\ Lightens(w) /\ jobs' \in [Workers -> Seq(Jobs)]
           /\ Unstarted(w)' = {} /\ Head(jobs[w]).id \in Unstarted(w) \cap Held(w)
           /\ Head(jobs[w]) \in Jobs
<1> DEFINE j == Head(jobs[w])
           r == [j EXCEPT !.phase = "running"]
<1>1. /\ jobs[w] # <<>> /\ j.phase = "chained" /\ inbox' = inbox /\ wstate' = wstate
      /\ jobs' = [jobs EXCEPT ![w] = <<r>> \o Tail(@)]
  BY DEF StartContract, AtHead
<1>2. jobs[w] \in Seq(Jobs) /\ jobs \in [Workers -> Seq(Jobs)] /\ Len(jobs[w]) <= 1
  BY DEF Wires, Orderly
<1>3. /\ Tail(jobs[w]) = <<>> /\ Entries(jobs[w]) = {j} /\ j \in Jobs
  BY <1>1, <1>2, OneJob
<1>4. r \in Jobs /\ r.id = j.id /\ r.phase = "running"
  BY <1>3 DEF Jobs
<1> HIDE DEF j, r
<1>5. /\ <<r>> \in Seq(Jobs) /\ <<r>> \o <<>> = <<r>> /\ Len(<<r>>) = 1 /\ Entries(<<r>>) = {r}
      /\ <<r>> # <<>>
  <2>1. <<r>> \in Seq(Jobs)
    BY <1>4
  <2> QED BY <2>1, ConcatEmptySeq DEF Entries
<1>6. jobs'[w] = <<r>>
  BY <1>1, <1>2, <1>3, <1>5
<1>7. jobs' \in [Workers -> Seq(Jobs)]
  BY <1>1, <1>2, <1>3, <1>5
<1>8. ExecFrames(inbox[w]) = {}
  BY <1>1 DEF Orderly
<1>9. j.id \in Unstarted(w) /\ j.id \in Held(w)
  BY <1>1, <1>3 DEF Unstarted, WaitsOf, Held, HoldsOf, Chained
<1>10. Held(w)' = {j.id}
  BY <1>1, <1>4, <1>5, <1>6, <1>8 DEF Held, HoldsOf
<1>11. Unstarted(w)' = {}
  BY <1>1, <1>4, <1>5, <1>6, <1>8 DEF Unstarted, WaitsOf, Chained
<1>12. Orderly(w)'
  BY <1>1, <1>5, <1>6, <1>8 DEF Orderly, Alive
<1> QED BY <1>3, <1>7, <1>9, <1>10, <1>11, <1>12 DEF Lightens, j

\* The three kinds of worker steps.  It may send a frame that answers no call it
\* holds; it may start the contract of its execution; or its execution ends with
\* an answer.
Mutters(w) ==
    /\ UNCHANGED <<ran, finished>>
    /\ \/ outbox' = outbox
       \/ \E r \in Replies : /\ Genuine(r) => r.id \in finished
                             /\ outbox' = [outbox EXCEPT ![w] = Append(@, r)]

Begins(w) ==
    /\ UNCHANGED <<outbox, finished>>
    /\ Unstarted(w)' = {}
    /\ \E s \in Starts : s.id \in Unstarted(w) \cap Held(w) /\ ran' = Append(ran, s)

Ends(w) ==
    /\ Held(w)' = {} /\ ran' = ran
    /\ \E id \in Held(w), type \in {"result", "hostfault"} :
         /\ outbox' = [outbox EXCEPT ![w] = Append(@, Reply(type, id, newDispatchToken(id)))]
         /\ finished' = IF type = "result" THEN finished \cup {id} ELSE finished

\* ReplyHostFault() ends the execution.
LEMMA FaultEnds ==
    ASSUME Wires, NEW w \in Workers, Orderly(w), jobs[w] # <<>>, ReplyHostFault(w)
    PROVE  Lightens(w) /\ Ends(w) /\ jobs' \in [Workers -> Seq(Jobs)]
           /\ Head(jobs[w]).id \in Nat
<1>1. /\ wstate' = wstate /\ inbox' = inbox /\ jobs' = [jobs EXCEPT ![w] = Tail(@)]
      /\ ran' = ran /\ finished' = finished
      /\ outbox' = [outbox EXCEPT ![w] = Append(@, Reply("hostfault", Head(jobs[w]).id,
                                                  newDispatchToken(Head(jobs[w]).id)))]
  BY DEF ReplyHostFault, Send
<1>2. /\ Lightens(w) /\ jobs' \in [Workers -> Seq(Jobs)] /\ Held(w)' = {}
      /\ Head(jobs[w]).id \in Held(w) /\ Head(jobs[w]).id \in Nat
  BY <1>1, LosesJob
<1>3. "hostfault" \in {"result", "hostfault"} /\ "hostfault" # "result"
  OBVIOUS
<1> QED BY <1>1, <1>2, <1>3 DEF Ends

\* FinishContract() ends the execution.
LEMMA FinishEnds ==
    ASSUME Wires, NEW w \in Workers, Orderly(w), FinishContract(w)
    PROVE  Lightens(w) /\ Ends(w) /\ jobs' \in [Workers -> Seq(Jobs)]
           /\ Head(jobs[w]).id \in Nat
<1>1. /\ wstate' = wstate /\ inbox' = inbox /\ jobs' = [jobs EXCEPT ![w] = Tail(@)]
      /\ ran' = ran /\ finished' = finished \cup {Head(jobs[w]).id} /\ jobs[w] # <<>>
      /\ outbox' = [outbox EXCEPT ![w] = Append(@, Reply("result", Head(jobs[w]).id,
                                                  newDispatchToken(Head(jobs[w]).id)))]
  BY DEF FinishContract, Send, AtHead
<1>2. /\ Lightens(w) /\ jobs' \in [Workers -> Seq(Jobs)] /\ Held(w)' = {}
      /\ Head(jobs[w]).id \in Held(w) /\ Head(jobs[w]).id \in Nat
  BY <1>1, LosesJob
<1>3. "result" \in {"result", "hostfault"}
  OBVIOUS
<1> QED BY <1>1, <1>2, <1>3 DEF Ends

\* A reply with the types of its fields.
LEMMA ReplyType ==
    ASSUME NEW type \in ReplyTypes, NEW id \in Nat, NEW tok \in Nat
    PROVE  /\ Reply(type, id, tok) \in Replies
           /\ Reply(type, id, tok).type = type /\ Reply(type, id, tok).id = id
           /\ Reply(type, id, tok).tok = tok
BY DEF Reply, Replies

\* An outbox with one more reply.
LEMMA SaysType ==
    ASSUME Wires, NEW w \in Workers, NEW r \in Replies,
           outbox' = [outbox EXCEPT ![w] = Append(@, r)]
    PROVE  outbox' \in [Workers -> Seq(Replies)]
<1>1. outbox \in [Workers -> Seq(Replies)] /\ outbox[w] \in Seq(Replies)
  BY DEF Wires
<1>2. Append(outbox[w], r) \in Seq(Replies)
  BY <1>1, PutLast
<1> QED BY <1>1, <1>2

\* Every step of a worker is of one of the kinds, touches nothing of the other
\* workers, and adds nothing to what the worker holds.
LEMMA WorkerShape ==
    ASSUME TypeOK, Wires, \A v \in Workers : Orderly(v), NEW w \in Workers, Worker(w)
    PROVE  /\ Wires'
           /\ \A v \in Workers : Lightens(v)
           /\ \A v \in Workers \ {w} : outbox'[v] = outbox[v]
           /\ Mutters(w) \/ Begins(w) \/ Ends(w)
<1>1. /\ inbox \in [Workers -> Seq(Frames)] /\ outbox \in [Workers -> Seq(Replies)]
      /\ jobs \in [Workers -> Seq(Jobs)] /\ wsnap \in [Workers -> [token : Nat, val : Nat]]
      /\ ran \in Seq(Starts) /\ finished \subseteq Nat /\ wstate \in [Workers -> WorkerStates]
      /\ inbox[w] \in Seq(Frames) /\ wsnap[w].val \in Nat /\ Orderly(w)
  BY DEF Wires, TypeOK
<1>2. /\ "ready" \in ReplyTypes /\ "snapshotAck" \in ReplyTypes /\ "result" \in ReplyTypes
      /\ "hostfault" \in ReplyTypes /\ 0 \in Nat /\ NoToken \in Nat
  BY DEF ReplyTypes, NoToken
\* The others.
<1>4. ASSUME NEW v \in Workers \ {w},
             inbox'[v] = inbox[v], jobs'[v] = jobs[v], wstate'[v] = wstate[v]
      PROVE  Lightens(v)
  BY <1>4 DEF Lightens, Orderly, Held, Unstarted, Alive
<1>5. ASSUME NEW r \in Replies, Send(w, r), UNCHANGED <<ran, finished>>,
             Genuine(r) => r.id \in finished
      PROVE  Mutters(w) /\ outbox' \in [Workers -> Seq(Replies)]
                        /\ \A v \in Workers \ {w} : outbox'[v] = outbox[v]
  BY <1>1, <1>5, SaysType DEF Mutters, Send
<1>6. ASSUME Ends(w), Head(jobs[w]).id \in Nat, Held(w) \subseteq Nat
      PROVE  /\ outbox' \in [Workers -> Seq(Replies)] /\ ran' = ran /\ finished' \subseteq Nat
             /\ \A v \in Workers \ {w} : outbox'[v] = outbox[v]
  <2>1. PICK id \in Held(w), type \in {"result", "hostfault"} :
         /\ outbox' = [outbox EXCEPT ![w] = Append(@, Reply(type, id, newDispatchToken(id)))]
         /\ finished' = IF type = "result" THEN finished \cup {id} ELSE finished
    BY <1>6 DEF Ends
  <2>2. Reply(type, id, newDispatchToken(id)) \in Replies
    BY <1>2, <1>6, ReplyType DEF newDispatchToken
  <2> QED BY <1>1, <1>6, <2>1, <2>2, SaysType DEF Ends
<1>7. Held(w) \subseteq Nat
  <2>1. \A f \in Entries(inbox[w]) : f.id \in Nat
    <3>1. Entries(inbox[w]) \subseteq Frames
      BY <1>1, Listed
    <3> QED BY <3>1 DEF Frames
  <2>2. \A j \in Entries(jobs[w]) : j.id \in Nat
    <3>1. Entries(jobs[w]) \subseteq Jobs
      BY <1>1, Listed
    <3> QED BY <3>1 DEF Jobs
  <2> QED BY <2>1, <2>2 DEF Held, HoldsOf, ExecFrames
<1>8. CASE handleInitMessage(w)
  <2>1. /\ Send(w, Reply("ready", 0, NoToken)) /\ jobs' = jobs /\ inbox[w] # <<>>
        /\ inbox' = [inbox EXCEPT ![w] = Tail(@)] /\ Alive(w) /\ Alive(w)'
        /\ UNCHANGED <<wsnap, ran, finished>>
        /\ \A v \in Workers \ {w} : wstate'[v] = wstate[v]
    BY <1>1, <1>8 DEF handleInitMessage, Got, Alive
  <2>2. Lightens(w) /\ inbox' \in [Workers -> Seq(Frames)]
    BY <1>1, <2>1, TakesNotice
  <2>3. Reply("ready", 0, NoToken) \in Replies /\ ~Genuine(Reply("ready", 0, NoToken))
    BY <1>2, ReplyType DEF Genuine
  <2>4. /\ Mutters(w) /\ outbox' \in [Workers -> Seq(Replies)]
        /\ \A v \in Workers \ {w} : outbox'[v] = outbox[v]
    BY <1>5, <2>1, <2>3
  <2>5. \A v \in Workers \ {w} : Lightens(v)
    BY <1>1, <1>4, <2>1
  <2>6. Wires'
    BY <1>1, <2>1, <2>2, <2>4 DEF Wires
  <2> QED BY <2>2, <2>4, <2>5, <2>6
<1>9. CASE onSnapshotFrame(w)
  <2> DEFINE f == Head(inbox[w])
  <2>1. /\ Send(w, Reply("snapshotAck", 0, f.ref)) /\ jobs' = jobs /\ inbox[w] # <<>>
        /\ inbox' = [inbox EXCEPT ![w] = Tail(@)] /\ Alive(w) /\ Alive(w)' /\ wstate' = wstate
        /\ UNCHANGED <<ran, finished>>
        /\ wsnap' = [wsnap EXCEPT ![w] = [token |-> f.ref, val |-> f.val]]
    BY <1>9 DEF onSnapshotFrame, Got, Alive
  <2>2. Lightens(w) /\ inbox' \in [Workers -> Seq(Frames)]
    BY <1>1, <2>1, TakesNotice
  <2>3. f.ref \in Nat /\ f.val \in Nat
    <3>1. f \in Frames
      BY <1>1, <2>1, TakeFirst
    <3> QED BY <3>1 DEF Frames
  <2>4. Reply("snapshotAck", 0, f.ref) \in Replies /\ ~Genuine(Reply("snapshotAck", 0, f.ref))
    BY <1>2, <2>3, ReplyType DEF Genuine
  <2>5. /\ Mutters(w) /\ outbox' \in [Workers -> Seq(Replies)]
        /\ \A v \in Workers \ {w} : outbox'[v] = outbox[v]
    BY <1>5, <2>1, <2>4
  <2>6. \A v \in Workers \ {w} : Lightens(v)
    BY <1>1, <1>4, <2>1
  <2>7. Wires'
    BY <1>1, <2>1, <2>2, <2>3, <2>5 DEF Wires
  <2> QED BY <2>2, <2>5, <2>6, <2>7
<1>10. CASE handleBeginBlockMessage(w) \/ handleEndBlockMessage(w)
  <2>1. /\ jobs' = jobs /\ inbox[w] # <<>>
        /\ inbox' = [inbox EXCEPT ![w] = Tail(@)] /\ Alive(w) /\ Alive(w)' /\ wstate' = wstate
        /\ UNCHANGED <<outbox, ran, finished>>
        /\ wsnap' = wsnap \/ wsnap' = [wsnap EXCEPT ![w] = NoWorkerSnapshot]
    BY <1>10 DEF handleBeginBlockMessage, handleEndBlockMessage, Got, Alive
  <2>2. Lightens(w) /\ inbox' \in [Workers -> Seq(Frames)]
    BY <1>1, <2>1, TakesNotice
  <2>3. \A v \in Workers \ {w} : Lightens(v)
    BY <1>1, <1>4, <2>1
  <2>4. wsnap' \in [Workers -> [token : Nat, val : Nat]]
    <3>1. NoWorkerSnapshot \in [token : Nat, val : Nat]
      BY DEF NoWorkerSnapshot, NoToken
    <3> QED BY <1>1, <2>1, <3>1
  <2>5. Wires'
    BY <1>1, <2>1, <2>2, <2>4 DEF Wires
  <2> QED BY <2>1, <2>2, <2>3, <2>5 DEF Mutters
<1>11. CASE handleExecuteMessage(w)
  <2>1. Lightens(w) /\ jobs' \in [Workers -> Seq(Jobs)] /\ inbox' \in [Workers -> Seq(Frames)]
    BY <1>1, <1>11, ChainsJob
  <2>2. UNCHANGED <<outbox, wstate, wsnap, ran, finished>>
    BY <1>11 DEF handleExecuteMessage
  <2>3. \A v \in Workers \ {w} : inbox'[v] = inbox[v] /\ jobs'[v] = jobs[v]
    BY <1>1, <1>11 DEF handleExecuteMessage, Got
  <2>4. \A v \in Workers \ {w} : Lightens(v)
    BY <1>4, <2>2, <2>3
  <2>5. Wires'
    BY <1>1, <2>1, <2>2 DEF Wires
  <2> QED BY <2>1, <2>2, <2>4, <2>5 DEF Mutters
<1>12. CASE StartContract(w)
  <2> DEFINE j == Head(jobs[w])
             s == [id |-> j.id, data |-> Resolved(w, j), w |-> w]
  <2>1. /\ Lightens(w) /\ jobs' \in [Workers -> Seq(Jobs)]
        /\ Unstarted(w)' = {} /\ j.id \in Unstarted(w) \cap Held(w) /\ j \in Jobs
    BY <1>1, <1>12, StartsJob
  <2>2. /\ UNCHANGED <<inbox, outbox, wstate, wsnap, finished>> /\ ran' = Append(ran, s)
    BY <1>12 DEF StartContract
  <2>3. \A v \in Workers \ {w} : jobs'[v] = jobs[v]
    BY <1>1, <1>12 DEF StartContract
  <2>4. \A v \in Workers \ {w} : Lightens(v)
    BY <1>4, <2>2, <2>3
  <2>5. s \in Starts /\ s.id = j.id
    <3>1. j.id \in Nat /\ j.val \in Nat
      BY <2>1 DEF Jobs
    <3> HIDE DEF j
    <3> QED BY <1>1, <3>1 DEF Starts, Resolved
  <2> HIDE DEF s, j
  <2>6. Begins(w)
    BY <2>1, <2>2, <2>5 DEF Begins
  <2>7. ran' \in Seq(Starts)
    BY <1>1, <2>2, <2>5, PutLast
  <2>8. Wires'
    BY <1>1, <2>1, <2>2, <2>7 DEF Wires
  <2> QED BY <2>1, <2>2, <2>4, <2>6, <2>8
<1>13. CASE StaleReference(w) \/ EscapedThrow(w)
  <2>1. ReplyHostFault(w) /\ jobs[w] # <<>>
    BY <1>13 DEF StaleReference, EscapedThrow, AtHead
  <2>2. /\ Lightens(w) /\ Ends(w) /\ jobs' \in [Workers -> Seq(Jobs)]
        /\ Head(jobs[w]).id \in Nat
    BY <1>1, <2>1, FaultEnds
  <2>3. /\ outbox' \in [Workers -> Seq(Replies)] /\ ran' = ran /\ finished' \subseteq Nat
        /\ \A v \in Workers \ {w} : outbox'[v] = outbox[v]
    BY <1>6, <1>7, <2>2
  <2>4. UNCHANGED <<inbox, wstate, wsnap>> /\ \A v \in Workers \ {w} : jobs'[v] = jobs[v]
    BY <1>1, <2>1 DEF ReplyHostFault
  <2>5. \A v \in Workers \ {w} : Lightens(v)
    BY <1>4, <2>4
  <2>6. Wires'
    BY <1>1, <2>2, <2>3, <2>4 DEF Wires
  <2> QED BY <2>2, <2>3, <2>5, <2>6
<1>14. CASE FinishContract(w)
  <2>2. /\ Lightens(w) /\ Ends(w) /\ jobs' \in [Workers -> Seq(Jobs)]
        /\ Head(jobs[w]).id \in Nat
    BY <1>1, <1>14, FinishEnds
  <2>3. /\ outbox' \in [Workers -> Seq(Replies)] /\ ran' = ran /\ finished' \subseteq Nat
        /\ \A v \in Workers \ {w} : outbox'[v] = outbox[v]
    BY <1>6, <1>7, <2>2
  <2>4. UNCHANGED <<inbox, wstate, wsnap>> /\ \A v \in Workers \ {w} : jobs'[v] = jobs[v]
    BY <1>1, <1>14 DEF FinishContract
  <2>5. \A v \in Workers \ {w} : Lightens(v)
    BY <1>4, <2>4
  <2>6. Wires'
    BY <1>1, <2>2, <2>3, <2>4 DEF Wires
  <2> QED BY <2>2, <2>3, <2>5, <2>6
<1>15. ASSUME NEW how \in Deaths, Die(w, how) PROVE
           /\ Wires'
           /\ \A v \in Workers : Lightens(v)
           /\ \A v \in Workers \ {w} : outbox'[v] = outbox[v]
           /\ Mutters(w)
  <2>1. /\ inbox' = [inbox EXCEPT ![w] = <<>>] /\ jobs' = [jobs EXCEPT ![w] = <<>>]
        /\ wsnap' = [wsnap EXCEPT ![w] = NoWorkerSnapshot]
        /\ UNCHANGED <<outbox, ran, finished>>
        /\ wstate' = [wstate EXCEPT ![w] = how]
    BY <1>15 DEF Die
  <2>2. inbox'[w] = <<>> /\ jobs'[w] = <<>> /\ <<>> \in Seq(Frames) /\ <<>> \in Seq(Jobs)
    BY <1>1, <2>1
  <2>3. Wires'
    BY <1>1, <2>1, <2>2 DEF Wires, NoWorkerSnapshot, NoToken
  <2>4. Entries(<<>>) = {} /\ Len(<<>>) = 0
    BY DEF Entries
  <2>5. ExecFrames(<<>>) = {} /\ ExecOnce(<<>>) /\ Len(<<>>) <= 1
    <3>1. ExecFrames(<<>>) = {}
      BY <2>4 DEF ExecFrames
    <3>2. ExecOnce(<<>>)
      BY DEF ExecOnce
    <3> QED BY <2>4, <3>1, <3>2
  <2>6. Orderly(w)'
    BY <2>2, <2>5 DEF Orderly
  <2>7. Held(w)' = {} /\ Unstarted(w)' = {}
    BY <2>2, <2>4, <2>5 DEF Held, Unstarted, HoldsOf, WaitsOf, Chained
  <2>8. Lightens(w)
    BY <2>6, <2>7 DEF Lightens
  <2>9. \A v \in Workers \ {w} : Lightens(v)
    BY <1>1, <1>4, <2>1
  <2> QED BY <2>1, <2>3, <2>8, <2>9 DEF Mutters
<1>16. CASE SendOddFrame(w, Requests)
  <2>1. /\ UNCHANGED <<inbox, wstate, jobs, wsnap, ran, finished>>
        /\ \E r \in OddFrames(Requests) : Send(w, r)
    BY <1>16 DEF SendOddFrame
  <2>2. PICK r \in OddFrames(Requests) : Send(w, r)
    BY <2>1
  <2>3. r \in Replies /\ (Genuine(r) => r.id \in finished)
    <3>1. CASE r = Reply("ready", 0, NoToken)
      BY <1>2, <3>1, ReplyType DEF Genuine
    <3>2. ASSUME NEW i \in Requests, r = Reply("result", i, NoToken)
          PROVE  r \in Replies /\ ~Genuine(r)
      <4>1. i \in Nat /\ i # NoToken
        BY ExecutorAssumption DEF Requests, NoToken
      <4> QED BY <1>2, <3>2, <4>1, ReplyType DEF Genuine, newDispatchToken
    <3>3. ASSUME NEW i \in finished, r = Reply("result", i, newDispatchToken(i))
          PROVE  r \in Replies /\ r.id \in finished
      BY <1>1, <1>2, <3>3, ReplyType, SMTT(30) DEF newDispatchToken
    <3> QED BY <3>1, <3>2, <3>3 DEF OddFrames
  <2>4. /\ Mutters(w) /\ outbox' \in [Workers -> Seq(Replies)]
        /\ \A v \in Workers \ {w} : outbox'[v] = outbox[v]
    BY <1>5, <2>1, <2>2, <2>3
  <2>5. \A v \in Workers : Lightens(v)
    BY <1>4, <2>1 DEF Lightens, Orderly, Held, Unstarted, Alive
  <2>6. Wires'
    BY <1>1, <2>1, <2>4 DEF Wires
  <2> QED BY <2>4, <2>5, <2>6
<1>17. CASE (\E how \in Deaths : Crash(w, how)) \/ KillArrives(w)
  <2>1. \E how \in Deaths : Die(w, how)
    BY <1>17 DEF Crash, KillArrives, Deaths
  <2> QED BY <1>15, <2>1
<1> QED BY <1>8, <1>9, <1>10, <1>11, <1>12, <1>13, <1>14, <1>16, <1>17 DEF Worker, Working

(***************************************************************************)
(* The four kinds of steps of the executor.                                *)
(***************************************************************************)
\* The calls that are queued when a step has taken note of a new one.
Candidates == Entries(queue) \cup (IF nextId' = nextId THEN {} ELSE {nextId})

\* What is in flight once the answer that is being handled has settled its call.
InFlight == {pending} \cup
    {pending \ {i} : i \in IF child = NoChild THEN {} ELSE pending \cap Answered(outbox[child])}

\* The worker stays; the gate may open; one call may be dispatched.
Serves ==
    /\ UNCHANGED <<child, gen, wstate, killed, broken>>
    /\ \/ UNCHANGED <<sawReady, everReady>>
       \/ ~everReady /\ everReady' /\ sawReady'
    /\ chan'.sent => chan.sent \/ sawReady'
    /\ \E pd \in InFlight : Flushes(Candidates, pd, sawReady' /\ child # NoChild)

\* The worker is killed and the gate shuts.
Dooms ==
    /\ UNCHANGED <<child, gen, wstate, broken, inbox, everReady>>
    /\ child # NoChild /\ everReady /\ ~sawReady'
    /\ Kill(child)
    /\ chan'.sent => chan.sent
    /\ pending' = pending \/ pending' = {}

\* The worker is gone, or never came up, and another one takes its place or the
\* latch trips.
Forks ==
    /\ gen < MaxWorkers /\ gen' = gen + 1 /\ child' = gen + 1 /\ ~broken'
    /\ wstate' = [wstate EXCEPT ![gen + 1] = "starting"]
    /\ \E box \in {<<Frame("init", 0, 0, 0)>>,
                   <<Frame("init", 0, 0, 0), Frame("beginBlock", 0, 0, 0)>>} :
         inbox' = [inbox EXCEPT ![gen + 1] = box]

Latches == child' = NoChild /\ broken' /\ UNCHANGED <<gen, inbox, wstate>>

Replaces ==
    /\ IF child = NoChild THEN broken ELSE ~Alive(child) \/ ~everReady
    /\ killed' = killed \/ (child # NoChild /\ Kill(child))
    /\ pending' = {} /\ ~sawReady' /\ ~everReady' /\ ~chan'.sent
    /\ Forks \/ Latches

\* shutdown() lets go of the worker.
Leaves ==
    /\ child' = NoChild /\ pending' = {} /\ killed' \in [Workers -> BOOLEAN]
    /\ UNCHANGED <<gen, wstate, broken, inbox, sawReady, everReady>>
    /\ chan'.sent => chan.sent
    /\ \A w \in Workers : w > gen => ~killed'[w]

\* A fork or the latch.
LEMMA SpawnShape ==
    ASSUME NEW STATE f, NEW STATE ch, NEW STATE q, NEW STATE oc, ch \in Channels,
           Forked(f, ch, q, oc) \/ Latched(ch, q, oc)
    PROVE  /\ Forks \/ Latches
           /\ ~sawReady' /\ ~everReady' /\ ~chan'.sent
           /\ Entries(queue') \subseteq Entries(q)
           /\ \A i \in Requests : outcome'[i] = oc[i] \/ outcome'[i] = "hostfault"
<1>1. chan' = workerSpawned(ch) /\ ~workerSpawned(ch).sent
  BY DEF Forked, Latched, workerSpawned, Channels
<1>2. CASE Forked(f, ch, q, oc)
  <2>1. Forks
    BY <1>2 DEF Forked, Forks
  <2> QED BY <1>1, <1>2, <2>1 DEF Forked
<1>3. CASE Latched(ch, q, oc)
  <2>1. Latches /\ ~sawReady' /\ ~everReady'
    BY <1>3 DEF Latched, Latches
  <2>2. Entries(queue') = {}
    BY <1>3 DEF Latched, Entries
  <2>3. outcome' = Settle(oc, Entries(q), "hostfault")
    BY <1>3 DEF Latched
  <2>4. \A i \in Requests : outcome'[i] = oc[i] \/ outcome'[i] = "hostfault"
    BY <2>3 DEF Settle
  <2> QED BY <1>1, <2>1, <2>2, <2>4
<1> QED BY <1>2, <1>3

\* What every step of the executor does to the calls and to the replies.
Accounts ==
    /\ nextId' = nextId \/ nextId' = nextId + 1
    /\ Entries(queue') \subseteq Candidates
    /\ \A w \in Workers : Entries(outbox'[w]) \subseteq Entries(outbox[w])
    /\ outbox' \in [Workers -> Seq(Replies)]
    /\ \A i \in Requests : outcome'[i] = "result" =>
          \/ outcome[i] = "result"
          \/ \E w \in Workers : \E r \in Entries(outbox[w]) :
                r.type = "result" /\ Genuine(r) /\ r.id = i

\* The parent takes a frame of a worker.
LEMMA IncomingShape ==
    ASSUME Wires, NEW w \in Workers, Incoming(w)
    PROVE  /\ outbox' \in [Workers -> Seq(Replies)]
           /\ \A v \in Workers : Entries(outbox'[v]) \subseteq Entries(outbox[v])
           /\ Head(outbox[w]) \in Entries(outbox[w]) /\ Head(outbox[w]) \in Replies
<1>1. /\ outbox \in [Workers -> Seq(Replies)] /\ outbox[w] \in Seq(Replies) /\ outbox[w] # <<>>
      /\ outbox' = [outbox EXCEPT ![w] = Tail(@)]
  BY DEF Wires, Incoming
<1>2. /\ Tail(outbox[w]) \in Seq(Replies) /\ Head(outbox[w]) \in Replies
      /\ Entries(outbox[w]) = {Head(outbox[w])} \cup Entries(Tail(outbox[w]))
  BY <1>1, TakeFirst
<1>3. \A v \in Workers : outbox'[v] = IF v = w THEN Tail(outbox[w]) ELSE outbox[v]
  BY <1>1
<1>4. outbox' \in [Workers -> Seq(Replies)]
  BY <1>1, <1>2
<1> QED BY <1>2, <1>3, <1>4

\* flush() as the end of a step in which the worker stays.
LEMMA FlushesServe ==
    ASSUME NEW STATE q, NEW STATE pd, NEW STATE ch, NEW STATE oc, NEW ready,
           ExecutorInv, Wires, child # NoChild,
           Typed(q, pd, oc), Increasing(q), ch \in Channels, ch.sent => chan.sent,
           opts' \in [Requests -> [kind : AllOptKinds, data : Nat]],
           flush(q, pd, ch, oc, ready), ready = sawReady', ready \in BOOLEAN,
           UNCHANGED <<child, gen, wstate, killed, broken>>,
           UNCHANGED <<sawReady, everReady>> \/ (~everReady /\ everReady' /\ sawReady'),
           pd \in InFlight, Entries(q) = Candidates
    PROVE  /\ Serves
           /\ Entries(queue') \subseteq Candidates
           /\ \A i \in Requests : outcome'[i] = oc[i] \/ outcome'[i] = "hostfault"
<1>1. nextTok \in Nat /\ child \in Workers \cup {NoChild}
  BY DEF ExecutorInv, TypeOK
<1>2. /\ Flushes(Entries(q), pd, ready)
      /\ Entries(queue') \subseteq Entries(q)
      /\ chan'.sent => ch.sent \/ ready
      /\ \A i \in Requests : outcome'[i] = oc[i] \/ outcome'[i] = "hostfault"
  BY <1>1, FlushWires
<1>3. Flushes(Candidates, pd, sawReady' /\ child # NoChild)
  BY <1>2 DEF Flushes
<1> QED BY <1>2, <1>3 DEF Serves

\* Every step of the executor is of one of the four kinds.
LEMMA ExecutorShape ==
    ASSUME ExecutorInv, Wires, GateInv, Executor
    PROVE  /\ Accounts
           /\ Serves \/ Dooms \/ Replaces \/ Leaves
<1>1. /\ TypeOK /\ Tracked(queue, pending, outcome) /\ Typed(queue, pending, outcome)
      /\ Increasing(queue) /\ OtherTypes /\ chan \in Channels /\ nextTok \in Nat
  BY TypeSplit DEF ExecutorInv, WaitingIsTracked, Tracked, Increasing
<1>2. pending \in InFlight
  BY DEF InFlight
<1>3. outbox \in [Workers -> Seq(Replies)]
  BY DEF Wires
\* Steps that only keep the books.
<1>4. ASSUME UNCHANGED <<child, gen, wstate, killed, broken, sawReady, everReady, pending>>,
             Notified, chan'.sent => chan.sent
      PROVE  Serves
  BY <1>2, <1>4 DEF Serves, Flushes
<1>5. ASSUME UNCHANGED <<nextId, queue, outcome>>, outbox' = outbox
      PROVE  Accounts
  BY <1>3, <1>5 DEF Accounts, Candidates
<1>6. CASE \E kind \in OptKinds : executeRejected(kind)
  <2>1. PICK kind \in OptKinds : executeRejected(kind)
    BY <1>6
  <2>2. /\ nextId' = nextId + 1 /\ outcome' = [outcome EXCEPT ![nextId] = "hostfault"]
        /\ UNCHANGED <<queue, pending, chan, inbox, outbox, wstate, killed, child, gen,
                       broken, sawReady, everReady>>
    BY <2>1 DEF executeRejected, NewCall, slotVars, latchVars, chanVars, ipcVars
  <2>3. Notified
    BY <2>2, SilentNotified
  <2>4. \A i \in Requests : outcome'[i] = "result" => outcome[i] = "result"
    BY <1>1, <2>2 DEF Typed
  <2>5. Entries(queue') \subseteq Candidates
    BY <2>2 DEF Candidates
  <2>6. Accounts
    BY <1>3, <2>2, <2>4, <2>5 DEF Accounts
  <2> QED BY <1>4, <2>2, <2>3, <2>6
<1>7. CASE \E kind \in OptKinds : executeProbe(kind)
  <2>1. PICK kind \in OptKinds : executeProbe(kind)
    BY <1>7
  <2>2. /\ NewCall(kind) /\ UNCHANGED <<pending, outbox, killed>> /\ broken
    BY <2>1 DEF executeProbe
  <2>3. child = NoChild /\ pending = {}
    BY <1>1, <2>2 DEF ExecutorInv, WaitingIsTracked, Quiet, Tracked, Typed
  <2>4. nextId' = nextId + 1 /\ nextId' # nextId /\ nextId \in Requests
    BY <1>1, <2>2 DEF NewCall, TypeOK, Requests
  <2>5. /\ Append(queue, nextId) \in Seq(Requests)
        /\ Entries(Append(queue, nextId)) = Candidates
    <3>1. queue \in Seq(Requests)
      BY <1>1 DEF Typed
    <3> QED BY <2>4, <3>1, PutLast DEF Candidates
  <2>6. CASE Forked(failures, chan, Append(queue, nextId), [outcome EXCEPT ![nextId] = "waiting"])
    <3> DEFINE q == Append(queue, nextId)
               oc == [outcome EXCEPT ![nextId] = "waiting"]
    <3>1. \A i \in Requests : oc[i] = "result" => outcome[i] = "result"
      BY <1>1 DEF Typed
    <3> HIDE DEF oc, q
    <3>2. /\ Forks \/ Latches
          /\ ~sawReady' /\ ~everReady' /\ ~chan'.sent
          /\ Entries(queue') \subseteq Entries(q)
          /\ \A i \in Requests : outcome'[i] = oc[i] \/ outcome'[i] = "hostfault"
      BY <1>1, <2>6, SpawnShape DEF oc, q
    <3>3. Replaces
      BY <2>2, <2>3, <3>2 DEF Replaces
    <3>4. Accounts
      BY <1>3, <2>2, <2>4, <2>5, <3>1, <3>2 DEF Accounts, q
    <3> QED BY <3>3, <3>4
  <2>7. CASE Latched(chan, queue, [outcome EXCEPT ![nextId] = "hostfault"])
    <3> DEFINE oc == [outcome EXCEPT ![nextId] = "hostfault"]
    <3>1. \A i \in Requests : oc[i] = "result" => outcome[i] = "result"
      BY <1>1 DEF Typed
    <3> HIDE DEF oc
    <3>2. /\ Forks \/ Latches
          /\ ~sawReady' /\ ~everReady' /\ ~chan'.sent
          /\ Entries(queue') \subseteq Entries(queue)
          /\ \A i \in Requests : outcome'[i] = oc[i] \/ outcome'[i] = "hostfault"
      BY <1>1, <2>7, SpawnShape DEF oc
    <3>3. Replaces
      BY <2>2, <2>3, <3>2 DEF Replaces
    <3>4. Accounts
      BY <1>3, <2>2, <2>4, <3>1, <3>2 DEF Accounts, Candidates
    <3> QED BY <3>3, <3>4
  <2> QED BY <2>1, <2>6, <2>7 DEF executeProbe
<1>8. CASE \E kind \in OptKinds : executeQueued(kind)
  <2>1. PICK kind \in OptKinds : executeQueued(kind)
    BY <1>8
  <2> DEFINE q == Append(queue, nextId)
             oc == [outcome EXCEPT ![nextId] = "waiting"]
  <2>2. /\ NewCall(kind) /\ flush(q, pending, chan, oc, sawReady) /\ outbox' = outbox
        /\ UNCHANGED <<child, gen, wstate, killed, broken, sawReady, everReady>>
    BY <2>1 DEF executeQueued, slotVars, latchVars
  <2>3. child # NoChild
    BY <2>1 DEF executeQueued, ExecutorInv
  <2>4. nextId' = nextId + 1 /\ nextId' # nextId /\ nextId \in Requests
    BY <1>1, <2>2 DEF NewCall, TypeOK, Requests
  <2>5. Entries(q) = Candidates
    <3>1. queue \in Seq(Requests)
      BY <1>1 DEF Typed
    <3> QED BY <2>4, <3>1, PutLast DEF Candidates
  <2>6. Typed(q, pending, oc) /\ Tracked(q, pending, oc)
    BY <1>1, <2>4, AppendTracked DEF ExecutorInv
  <2>7. opts' \in [Requests -> [kind : AllOptKinds, data : Nat]]
    <3>1. ExecutorInv'
      BY <2>1, ExecuteStep
    <3> QED BY <3>1 DEF ExecutorInv, TypeOK
  <2>8. \A i \in Requests : oc[i] = "result" => outcome[i] = "result"
    BY <1>1 DEF Typed
  <2>9. sawReady \in BOOLEAN /\ Increasing(q)
    BY <1>1, <2>6 DEF OtherTypes, Tracked, Increasing
  <2> HIDE DEF q, oc
  <2>10. /\ Serves
         /\ Entries(queue') \subseteq Candidates
         /\ \A i \in Requests : outcome'[i] = oc[i] \/ outcome'[i] = "hostfault"
    BY <1>1, <1>2, <2>2, <2>3, <2>5, <2>6, <2>7, <2>9, FlushesServe
  <2>11. Accounts
    BY <1>3, <2>2, <2>4, <2>8, <2>10 DEF Accounts
  <2> QED BY <2>10, <2>11
<1>9. CASE beginBlock \/ endBlock
  <2>1. PICK type \in {"beginBlock", "endBlock"} : SendFrames(<<Frame(type, 0, 0, 0)>>)
    BY <1>9 DEF beginBlock, endBlock
  <2>2. Frame(type, 0, 0, 0) \in Frames /\ Frame(type, 0, 0, 0).type # "execute"
    BY DEF Frames, Frame, FrameTypes
  <2>3. child \in Workers \cup {NoChild}
    BY <1>1 DEF OtherTypes
  <2>4. Notified
    BY <2>1, <2>2, <2>3, SendPosts DEF Notified
  <2>5. /\ chan' = NoSnapshot /\ outbox' = outbox
        /\ UNCHANGED <<nextId, queue, outcome, pending, child, gen, wstate, killed, broken,
                       sawReady, everReady>>
    BY <1>9 DEF beginBlock, endBlock, promiseVars, slotVars, latchVars
  <2>6. chan'.sent => chan.sent
    BY <2>5 DEF NoSnapshot
  <2> QED BY <1>4, <1>5, <2>4, <2>5, <2>6
<1>10. CASE shutdown
  <2>1. /\ outcome' = Settle(outcome, pending \cup Entries(queue), "hostfault")
        /\ chan' = clearTimer(chan) /\ queue' = <<>> /\ pending' = {} /\ child' = NoChild
        /\ IF child # NoChild THEN Kill(child) ELSE UNCHANGED killed
        /\ UNCHANGED <<nextId, gen, sawReady, everReady, broken, inbox, outbox, wstate>>
    BY <1>10 DEF shutdown, latchVars
  <2>2. Entries(queue') = {}
    BY <2>1 DEF Entries
  <2>3. \A i \in Requests : outcome'[i] = "result" => outcome[i] = "result"
    BY <2>1 DEF Settle
  <2>4. chan'.sent => chan.sent
    BY <1>1, <2>1 DEF clearTimer, Channels
  <2>5. /\ killed' \in [Workers -> BOOLEAN]
        /\ \A w \in Workers : w > gen => ~killed'[w]
    <3>1. /\ killed \in [Workers -> BOOLEAN] /\ \A w \in Workers : w > gen => ~killed[w]
          /\ child \in {NoChild, gen} /\ gen \in Nat
      BY <1>1 DEF GateInv, OtherTypes
    <3>2. CASE killed' = killed
      BY <3>1, <3>2
    <3>3. CASE child = gen /\ killed' = [killed EXCEPT ![child] = TRUE]
      <4>1. \A w \in Workers : w > gen => w # gen
        BY <3>1 DEF Workers
      <4> QED BY <3>1, <3>3, <4>1
    <3> QED BY <2>1, <3>1, <3>2, <3>3 DEF Kill
  <2>6. Accounts
    BY <1>3, <2>1, <2>2, <2>3 DEF Accounts
  <2>7. Leaves
    BY <2>1, <2>4, <2>5 DEF Leaves
  <2> QED BY <2>6, <2>7

\* Frames of the workers.
<1>11. ASSUME NEW w \in Workers, Listen(w)
       PROVE  Accounts /\ (Serves \/ Dooms)
  <2>1. Incoming(w)
    BY <1>11 DEF Listen, onStaleFrame, onSnapshotAck, onReady, onReadyAgain, onUnknownReply,
       onBadReply, onReply, From
  <2>2. /\ outbox' \in [Workers -> Seq(Replies)]
        /\ \A v \in Workers : Entries(outbox'[v]) \subseteq Entries(outbox[v])
        /\ Head(outbox[w]) \in Entries(outbox[w]) /\ Head(outbox[w]) \in Replies
    BY <2>1, IncomingShape
  <2>3. ASSUME nextId' = nextId, Entries(queue') \subseteq Candidates,
               \A i \in Requests : outcome'[i] = outcome[i] \/ outcome'[i] = "hostfault"
        PROVE  Accounts
    BY <2>2, <2>3 DEF Accounts
  <2>4. nextId' = nextId => Candidates = Entries(queue)
    BY DEF Candidates
  <2>5. w # NoChild
    BY WorkerAssumption DEF Workers, NoChild
  <2>6. CASE onStaleFrame(w) \/ onReadyAgain(w) \/ onUnknownReply(w)
    <3>1. UNCHANGED <<nextId, queue, outcome, pending, child, gen, wstate, killed, broken,
                      sawReady, everReady, chan, inbox>>
      BY <2>6 DEF onStaleFrame, onReadyAgain, onUnknownReply, executorVars, promiseVars,
         slotVars, latchVars, chanVars
    <3>2. Notified
      BY <3>1, SilentNotified
    <3> QED BY <1>4, <2>3, <2>4, <3>1, <3>2
  <2>7. CASE onSnapshotAck(w)
    <3> DEFINE ch == onAck(chan, Head(outbox[w]).tok)
    <3>1. ch \in Channels /\ (ch.sent => chan.sent)
      BY <1>1 DEF onAck, Channels
    <3>2. /\ flush(queue, pending, ch, outcome, sawReady) /\ opts' = opts
          /\ UNCHANGED <<nextId, child, gen, wstate, killed, broken, sawReady, everReady>>
      BY <2>7 DEF onSnapshotAck, slotVars, latchVars
    <3> HIDE DEF ch
    <3>3. child # NoChild
      BY <2>5, <2>7 DEF onSnapshotAck, From
    <3>4. sawReady \in BOOLEAN /\ opts' \in [Requests -> [kind : AllOptKinds, data : Nat]]
      BY <1>1, <3>2 DEF OtherTypes
    <3>5. /\ Serves
          /\ Entries(queue') \subseteq Candidates
          /\ \A i \in Requests : outcome'[i] = outcome[i] \/ outcome'[i] = "hostfault"
      BY <1>1, <1>2, <2>4, <3>1, <3>2, <3>3, <3>4, FlushesServe
    <3> QED BY <2>3, <3>2, <3>5
  <2>8. CASE onReady(w)
    <3>1. /\ flush(queue, pending, chan, outcome, TRUE) /\ opts' = opts
          /\ UNCHANGED <<nextId, child, gen, wstate, killed, broken>>
          /\ ~everReady /\ everReady' = TRUE /\ sawReady' = TRUE
      BY <2>8 DEF onReady
    <3>2. child # NoChild
      BY <2>5, <2>8 DEF onReady, From
    <3>3. opts' \in [Requests -> [kind : AllOptKinds, data : Nat]]
      BY <1>1, <3>1 DEF OtherTypes
    <3>4. /\ Serves
          /\ Entries(queue') \subseteq Candidates
          /\ \A i \in Requests : outcome'[i] = outcome[i] \/ outcome'[i] = "hostfault"
      BY <1>1, <1>2, <2>4, <3>1, <3>2, <3>3, FlushesServe
    <3> QED BY <2>3, <3>1, <3>4
  <2>9. CASE onBadReply(w)
    <3> DEFINE id == Head(outbox[w]).id
    <3>1. /\ id \in pending /\ pending' = pending \ {id}
          /\ outcome' = Settle(outcome, {id}, "hostfault")
          /\ Kill(child) /\ sawReady' = FALSE /\ chan' = chan
          /\ UNCHANGED <<nextId, queue, child, gen, everReady, broken, inbox, wstate>>
      BY <2>9 DEF onBadReply, latchVars, chanVars
    <3>2. child # NoChild /\ everReady
      BY <2>5, <2>9, <3>1 DEF onBadReply, From, GateInv
    <3>3. \A i \in Requests : outcome'[i] = outcome[i] \/ outcome'[i] = "hostfault"
      BY <3>1 DEF Settle
    <3>4. pending' = {}
      BY <1>1, <3>1 DEF Tracked
    <3> QED BY <2>3, <2>4, <3>1, <3>2, <3>3, <3>4 DEF Dooms
  <2>10. CASE onReply(w)
    <3> DEFINE r == Head(outbox[w])
               oc == Settle(outcome, {r.id}, r.type)
    <3>1. /\ r.id \in pending /\ ~replyFault(r) /\ r.type \in {"result", "hostfault"} /\ w = child
          /\ flush(queue, pending \ {r.id}, chan, oc, sawReady) /\ opts' = opts
          /\ UNCHANGED <<nextId, child, gen, wstate, killed, broken, sawReady, everReady>>
      BY <2>10 DEF onReply, From, slotVars, latchVars
    <3>2. Genuine(r) /\ r \in Entries(outbox[child]) /\ child # NoChild
      BY <2>2, <2>5, <3>1 DEF Genuine, replyFault
    <3>3. r.id \in Answered(outbox[child])
      BY <3>2 DEF Answered
    <3>4. \A i \in Requests : oc[i] = IF i = r.id THEN r.type ELSE outcome[i]
      BY DEF Settle
    <3>5. Typed(queue, pending \ {r.id}, oc)
      <4>1. r.type \in Settled /\ {r.id} \in SUBSET pending
        BY <3>1 DEF Settled
      <4> HIDE DEF r
      <4> QED BY <1>1, <4>1, SettleTracked
    <3> HIDE DEF oc, r
    <3>6. pending \ {r.id} \in InFlight
      BY <3>1, <3>2, <3>3 DEF InFlight
    <3>7. sawReady \in BOOLEAN /\ opts' \in [Requests -> [kind : AllOptKinds, data : Nat]]
      BY <1>1, <3>1 DEF OtherTypes
    <3>8. /\ Serves
          /\ Entries(queue') \subseteq Candidates
          /\ \A i \in Requests : outcome'[i] = oc[i] \/ outcome'[i] = "hostfault"
      BY <1>1, <2>4, <3>1, <3>2, <3>5, <3>6, <3>7, FlushesServe
    <3>9. Accounts
      <4> SUFFICES ASSUME NEW i \in Requests, outcome'[i] = "result", outcome[i] # "result"
                   PROVE  \E v \in Workers : \E x \in Entries(outbox[v]) :
                             x.type = "result" /\ Genuine(x) /\ x.id = i
        BY <2>2, <3>1, <3>8 DEF Accounts
      <4>1. oc[i] = "result"
        BY <3>8
      <4>2. i = r.id /\ r.type = "result"
        BY <3>4, <4>1
      <4> QED BY <3>1, <3>2, <4>2
    <3> QED BY <3>8, <3>9
  <2> QED BY <1>11, <2>6, <2>7, <2>8, <2>9, <2>10 DEF Listen
\* The exit of the worker.
<1>12. ASSUME NEW how, onExit(how), outbox' = outbox, child # NoChild,
              ~Alive(child) \/ ~everReady, killed' = killed \/ Kill(child)
       PROVE  Accounts /\ Replaces
  <2> DEFINE verdict == IF how = "self" THEN "terminated" ELSE "hostfault"
             oc == Settle(outcome, pending, verdict)
  <2>1. /\ pending' = {} /\ nextId' = nextId
        /\ \E f : afterWorkerLost(f, clearTimer(chan), queue, oc)
    BY <1>12 DEF onExit
  <2>2. \A i \in Requests : oc[i] = "result" => outcome[i] = "result"
    BY DEF Settle
  <2> HIDE DEF oc, verdict
  <2>3. PICK f : Forked(f, clearTimer(chan), queue, oc) \/ Latched(clearTimer(chan), queue, oc)
    BY <2>1 DEF afterWorkerLost
  <2>4. clearTimer(chan) \in Channels
    BY <1>1 DEF clearTimer, Channels
  <2>5. /\ Forks \/ Latches
        /\ ~sawReady' /\ ~everReady' /\ ~chan'.sent
        /\ Entries(queue') \subseteq Entries(queue)
        /\ \A i \in Requests : outcome'[i] = oc[i] \/ outcome'[i] = "hostfault"
    BY <2>3, <2>4, SpawnShape
  <2>6. Replaces
    BY <1>12, <2>1, <2>5 DEF Replaces
  <2>7. Accounts
    BY <1>3, <1>12, <2>1, <2>2, <2>5 DEF Accounts, Candidates
  <2> QED BY <2>6, <2>7
<1>13. CASE onChildExit
  <2>1. /\ onExit(wstate[child]) /\ outbox' = outbox /\ child # NoChild /\ killed' = killed
        /\ ~Alive(child)
    BY <1>13 DEF onChildExit, Alive, Deaths
  <2> QED BY <1>12, <2>1
<1>14. CASE onReadyTimeout
  <2>1. /\ onExit("external") /\ outbox' = outbox /\ child # NoChild /\ Kill(child) /\ ~everReady
    BY <1>14 DEF onReadyTimeout
  <2> QED BY <1>12, <2>1
<1>15. CASE onDisconnect \/ BackoffElapses
  <2>1. UNCHANGED <<nextId, queue, outcome, pending, child, gen, wstate, killed, broken,
                    sawReady, everReady, chan, inbox, outbox>>
    BY <1>15 DEF onDisconnect, BackoffElapses, promiseVars, slotVars, latchVars, chanVars, ipcVars
  <2>2. Notified
    BY <2>1, SilentNotified
  <2> QED BY <1>4, <1>5, <2>1, <2>2
<1>16. CASE onAckTimeout
  <2>1. /\ UNCHANGED <<nextId, queue, outcome, pending, child, gen, everReady, broken, inbox,
                       outbox, wstate>>
        /\ child # NoChild /\ chan.sent /\ Kill(child) /\ sawReady' = FALSE
    BY <1>16 DEF onAckTimeout, promiseVars, latchVars
  <2>2. everReady
    BY <2>1 DEF GateInv
  <2> QED BY <1>5, <2>1, <2>2 DEF Dooms
<1>17. ASSUME NEW id \in Requests, onWatchdog(id)
       PROVE  Accounts /\ Dooms
  <2>1. /\ id \in pending /\ pending' = pending \ {id} /\ outbox' = outbox
        /\ outcome' = Settle(outcome, {id}, "watchdog")
        /\ Kill(child) /\ sawReady' = FALSE /\ chan' = chan
        /\ UNCHANGED <<nextId, queue, child, gen, everReady, broken, inbox, wstate>>
    BY <1>17 DEF onWatchdog, latchVars, chanVars
  <2>2. child # NoChild /\ everReady
    BY <1>1, <2>1 DEF ExecutorInv, WaitingIsTracked, Quiet, Tracked, Typed, GateInv
  <2>3. \A i \in Requests : outcome'[i] = "result" => outcome[i] = "result"
    BY <2>1 DEF Settle
  <2>4. Accounts
    BY <1>3, <2>1, <2>3 DEF Accounts, Candidates
  <2>5. pending' = {}
    BY <1>1, <2>1 DEF Tracked
  <2> QED BY <2>1, <2>2, <2>4, <2>5 DEF Dooms
<1> QED
  BY <1>6, <1>7, <1>8, <1>9, <1>10, <1>11, <1>13, <1>14, <1>15, <1>16, <1>17, Zenon
     DEF Executor, Caller, Timers

(***************************************************************************)
(* The gate.                                                               *)
(***************************************************************************)
\* A worker does not touch a signal on its way, and only a live one changes state.
LEMMA WorkerLife ==
    ASSUME NEW w \in Workers, Worker(w)
    PROVE  /\ killed' = killed
           /\ wstate' = wstate \/ (Alive(w) /\ \E s : wstate' = [wstate EXCEPT ![w] = s])
<1>1. CASE Working(w)
  BY <1>1 DEF Working, handleInitMessage, onSnapshotFrame, handleBeginBlockMessage,
     handleEndBlockMessage, handleExecuteMessage, StartContract, StaleReference,
     FinishContract, ReplyHostFault, Alive
<1>2. CASE EscapedThrow(w)
  BY <1>2 DEF EscapedThrow, ReplyHostFault
<1>3. CASE (\E how \in Deaths : Crash(w, how)) \/ KillArrives(w)
  BY <1>3 DEF Crash, KillArrives, Die
<1>4. CASE SendOddFrame(w, Requests)
  BY <1>4 DEF SendOddFrame
<1> QED BY <1>1, <1>2, <1>3, <1>4 DEF Worker

\* The gate through a worker's step.
LEMMA WorkerGate ==
    ASSUME TypeOK, GateInv, NEW w \in Workers, Worker(w)
    PROVE  GateInv'
<1>1. /\ killed' = killed
      /\ wstate' = wstate \/ (Alive(w) /\ \E s : wstate' = [wstate EXCEPT ![w] = s])
  BY WorkerLife
<1>2. UNCHANGED <<child, gen, sawReady, everReady, pending, chan>>
  BY DEF Worker, executorVars, slotVars, chanVars
<1>3. ASSUME NEW v \in Workers, v > gen PROVE wstate'[v] = "absent"
  <2>1. wstate[v] = "absent" /\ wstate \in [Workers -> WorkerStates]
    BY <1>3 DEF GateInv, TypeOK
  <2>2. wstate' # wstate => v # w
    BY <1>1, <2>1 DEF Alive
  <2> QED BY <1>1, <2>1, <2>2
<1> QED BY <1>1, <1>2, <1>3 DEF GateInv

\* The gate through a step of the executor.
LEMMA ExecutorGate ==
    ASSUME TypeOK, GateInv, Serves \/ Dooms \/ Replaces \/ Leaves
    PROVE  GateInv'
<1>1. /\ killed \in [Workers -> BOOLEAN] /\ gen \in Nat /\ wstate \in [Workers -> WorkerStates]
      /\ child \in Workers \cup {NoChild} /\ Workers \subseteq Nat
      /\ gen \in 0..MaxWorkers /\ MaxWorkers \in Nat /\ Workers = 1..MaxWorkers
      /\ sawReady \in BOOLEAN /\ everReady \in BOOLEAN
  BY WorkerAssumption DEF TypeOK, Workers
<1>2. CASE Serves
  <2>1. /\ UNCHANGED <<child, gen, wstate, killed>>
        /\ \/ UNCHANGED <<sawReady, everReady>>
           \/ ~everReady /\ everReady' /\ sawReady'
        /\ chan'.sent => chan.sent \/ sawReady'
        /\ pending' # {} => pending # {} \/ sawReady'
    BY <1>2 DEF Serves, InFlight, Flushes
  <2> QED BY <2>1 DEF GateInv
<1>3. CASE Dooms
  <2>1. \A w \in Workers : killed'[w] = (killed[w] \/ w = child)
    BY <1>1, <1>3, Zenon DEF Dooms, Kill
  <2>2. \A w \in Workers : w > gen => w # child
    BY <1>1, <1>3 DEF Dooms, GateInv
  <2>3. \A w \in Workers : w > gen => ~killed'[w] /\ wstate'[w] = "absent"
    BY <1>3, <2>1, <2>2 DEF GateInv, Dooms
  <2> QED BY <1>3, <2>3 DEF Dooms, GateInv
<1>4. CASE Replaces
  <2>1. \A w \in Workers : killed'[w] => killed[w] \/ (child # NoChild /\ w = child)
    <3>1. CASE killed' = killed
      BY <3>1
    <3>2. CASE child # NoChild /\ Kill(child)
      BY <1>1, <3>2, Zenon DEF Kill
    <3> QED BY <1>4, <3>1, <3>2 DEF Replaces
  <2>2. \A w \in Workers : w > gen => ~killed'[w]
    <3>1. \A w \in Workers : w > gen /\ child # NoChild => w # child
      BY <1>1 DEF GateInv
    <3> QED BY <2>1, <3>1 DEF GateInv
  <2>3. CASE Latches
    BY <1>4, <2>2, <2>3 DEF Latches, Replaces, GateInv
  <2>4. CASE Forks
    <3>1. gen' = gen + 1 /\ child' = gen + 1 /\ gen + 1 \in Workers /\ gen + 1 > gen
      BY <1>1, <2>4 DEF Forks
    <3>2. ~killed'[gen + 1]
      BY <2>2, <3>1
    <3>3. \A w \in Workers : w > gen + 1 => w > gen /\ w # gen + 1
      BY <1>1
    <3>4. \A w \in Workers : w > gen + 1 => ~killed'[w] /\ wstate'[w] = "absent"
      BY <1>1, <2>2, <2>4, <3>3 DEF Forks, GateInv
    <3> QED BY <1>4, <3>1, <3>2, <3>4 DEF Replaces, GateInv
  <2> QED BY <1>4, <2>3, <2>4 DEF Replaces
<1>5. CASE Leaves
  BY <1>5 DEF Leaves, GateInv
<1> QED BY <1>2, <1>3, <1>4, <1>5

(***************************************************************************)
(* What the workers hold.                                                  *)
(***************************************************************************)
\* At most one call is sent to a worker in a step of the executor, and it comes
\* after everything that was dispatched before.
Sends ==
    \E new \in SUBSET Candidates :
       /\ new \subseteq pending'
       /\ \A i \in new, x \in Entries(queue') : i < x
       /\ \A w \in Workers : /\ Held(w)' \subseteq Held(w) \cup new
                             /\ Unstarted(w)' \subseteq Unstarted(w) \cup new

\* Nothing new is sent.
LEMMA NoneSent ==
    ASSUME \A w \in Workers : Held(w)' \subseteq Held(w) /\ Unstarted(w)' \subseteq Unstarted(w)
    PROVE  Sends
<1>1. {} \in SUBSET Candidates /\ {} \subseteq pending'
      /\ \A i \in {}, x \in Entries(queue') : i < x
  OBVIOUS
<1> QED BY <1>1 DEF Sends

\* The worker stays: a call is dispatched to it only when it holds none.
LEMMA ServesHold ==
    ASSUME TypeOK, Wires, GateInv, HoldInv, OrderInv, UNCHANGED workerVars, Serves
    PROVE  inbox' \in [Workers -> Seq(Frames)] /\ HoldInv' /\ Sends
<1>1. PICK pd \in InFlight : Flushes(Candidates, pd, sawReady' /\ child # NoChild)
  BY DEF Serves
<1>2. /\ UNCHANGED <<child, gen, wstate, killed, broken, jobs>>
      /\ \/ UNCHANGED <<sawReady, everReady>>
         \/ ~everReady /\ everReady' /\ sawReady'
  BY DEF Serves, workerVars
<1>3. child \in Workers \cup {NoChild} /\ \A w \in Workers : Orderly(w)
  BY DEF TypeOK, HoldInv
<1>4. ASSUME child # NoChild, ~everReady \/ sawReady \/ pending # {}
      PROVE  Held(child) \subseteq pd
  <2>1. Held(child) \subseteq pending
    BY <1>4 DEF HoldInv
  <2>2. child \in Workers
    BY <1>3, <1>4
  <2>3. Held(child) \cap Answered(outbox[child]) = {}
    BY <2>2 DEF OrderInv
  <2> QED BY <1>1, <1>4, <2>1, <2>3 DEF InFlight
<1>5. pd \subseteq pending
  BY <1>1 DEF InFlight
<1>6. CASE pending' = pd /\ Notified
  <2>1. /\ inbox' \in [Workers -> Seq(Frames)]
        /\ \A w \in Workers : /\ Orderly(w)' /\ Held(w)' \subseteq Held(w)
                              /\ Unstarted(w)' \subseteq Unstarted(w)
    BY <1>2, <1>3, <1>6, NotifiedHolds
  <2>2. ASSUME child # NoChild, ~everReady' \/ sawReady' \/ pending' # {}
        PROVE  Held(child)' \subseteq pending'
    <3>1. ~everReady \/ sawReady \/ pending # {}
      BY <1>2, <1>5, <1>6, <2>2
    <3>2. Held(child) \subseteq pd
      BY <1>4, <2>2, <3>1
    <3>3. child \in Workers /\ child' = child
      BY <1>2, <1>3, <2>2
    <3> QED BY <1>6, <2>1, <3>2, <3>3 DEF Held
  <2>3. HoldInv'
    BY <1>2, <2>1, <2>2 DEF HoldInv
  <2> QED BY <2>1, <2>3, NoneSent
<1>7. CASE /\ pd = {} /\ sawReady' /\ child # NoChild
           /\ \E id \in Candidates : /\ pending' = {id} /\ Dispatched(id)
                                     /\ \A x \in Entries(queue') : id < x
  <2>1. PICK id \in Candidates : /\ pending' = {id} /\ Dispatched(id)
                                 /\ \A x \in Entries(queue') : id < x
    BY <1>7
  <2>2. child \in Workers /\ Held(child) = {} /\ child' = child
    BY <1>2, <1>3, <1>4, <1>7
  <2>3. /\ inbox' \in [Workers -> Seq(Frames)]
        /\ \A w \in Workers : Orderly(w)'
        /\ \A w \in Workers \ {child} : /\ Held(w)' \subseteq Held(w)
                                        /\ Unstarted(w)' \subseteq Unstarted(w)
        /\ Held(child)' \subseteq {id} /\ Unstarted(child)' \subseteq Unstarted(child) \cup {id}
    BY <1>2, <1>3, <1>7, <2>1, <2>2, DispatchedHolds
  <2>4. \A w \in Workers \ {child} : Held(w) = {} /\ Held(w)' = {}
    BY <1>7, <2>3 DEF HoldInv
  <2>5. \A v, w \in Workers : v = w \/ Held(v)' = {} \/ Held(w)' = {}
    BY <2>4
  <2>6. HoldInv'
    BY <2>1, <2>2, <2>3, <2>4, <2>5 DEF HoldInv
  <2>7. Sends
    <3>1. {id} \in SUBSET Candidates /\ {id} \subseteq pending'
          /\ \A i \in {id}, x \in Entries(queue') : i < x
      BY <2>1
    <3>2. \A w \in Workers : /\ Held(w)' \subseteq Held(w) \cup {id}
                             /\ Unstarted(w)' \subseteq Unstarted(w) \cup {id}
      <4> TAKE w \in Workers
      <4>1. CASE w = child
        BY <2>2, <2>3, <4>1 DEF Held, Unstarted
      <4>2. CASE w # child
        BY <2>3, <4>2
      <4> QED BY <4>1, <4>2
    <3> QED BY <3>1, <3>2 DEF Sends
  <2> QED BY <2>3, <2>6, <2>7
<1> QED BY <1>1, <1>6, <1>7 DEF Flushes

\* A worker with an empty chain whose inbox has no execution holds none.
LEMMA FreshBox ==
    ASSUME NEW box \in {<<Frame("init", 0, 0, 0)>>,
                        <<Frame("init", 0, 0, 0), Frame("beginBlock", 0, 0, 0)>>}
    PROVE  /\ box \in Seq(Frames) /\ ExecOnce(box) /\ ExecFrames(box) = {}
           /\ \A f \in Entries(box) : f.type \in {"init", "beginBlock"}
<1>1. /\ Frame("init", 0, 0, 0) \in Frames /\ Frame("beginBlock", 0, 0, 0) \in Frames
      /\ Frame("init", 0, 0, 0).type = "init" /\ Frame("beginBlock", 0, 0, 0).type = "beginBlock"
  BY DEF Frame, Frames, FrameTypes
<1> DEFINE a == Frame("init", 0, 0, 0)
           b == Frame("beginBlock", 0, 0, 0)
<1> HIDE DEF a, b
<1>2. <<a>> \in Seq(Frames) /\ <<a, b>> \in Seq(Frames)
  BY <1>1 DEF a, b
<1>3. \A i \in 1..Len(box) : box[i].type \in {"init", "beginBlock"}
  BY <1>1 DEF a, b
<1>4. \A f \in Entries(box) : f.type \in {"init", "beginBlock"}
  BY <1>3 DEF Entries
<1>5. ExecFrames(box) = {}
  BY <1>4 DEF ExecFrames
<1>6. ExecOnce(box)
  BY <1>3 DEF ExecOnce
<1> QED BY <1>2, <1>4, <1>5, <1>6 DEF a, b

\* The worker is given up, replaced or let go: no worker holds more than before.
LEMMA OthersHold ==
    ASSUME TypeOK, Wires, GateInv, HoldInv, broken => child = NoChild,
           UNCHANGED workerVars, Dooms \/ Replaces \/ Leaves
    PROVE  inbox' \in [Workers -> Seq(Frames)] /\ HoldInv' /\ Sends
<1>1. /\ jobs' = jobs /\ inbox \in [Workers -> Seq(Frames)] /\ \A w \in Workers : Orderly(w)
      /\ wstate \in [Workers -> WorkerStates] /\ gen \in Nat /\ child \in Workers \cup {NoChild}
      /\ Workers = 1..MaxWorkers /\ NoChild \notin Workers
  BY WorkerAssumption, SMTT(30) DEF workerVars, Wires, HoldInv, TypeOK, Workers, NoChild
<1>2. ASSUME UNCHANGED <<inbox, wstate>>
      PROVE  \A w \in Workers : Orderly(w)' /\ Held(w)' = Held(w) /\ Unstarted(w)' = Unstarted(w)
  BY <1>1, <1>2 DEF Orderly, Held, Unstarted, Alive
<1>3. CASE Dooms
  <2>1. UNCHANGED <<inbox, wstate, child, broken, everReady>> /\ ~sawReady' /\ everReady
        /\ child # NoChild /\ (pending' = pending \/ pending' = {})
    BY <1>3 DEF Dooms
  <2>2. /\ Sends
        /\ \A w \in Workers : Orderly(w)' /\ Held(w)' = Held(w)
    BY <1>2, <2>1, NoneSent
  <2>3. pending' # {} => Held(child)' \subseteq pending'
    <3>1. pending' # {} => Held(child) \subseteq pending'
      BY <2>1 DEF HoldInv
    <3>2. child \in Workers /\ child' = child
      BY <1>1, <2>1
    <3> QED BY <2>2, <3>1, <3>2 DEF Held
  <2> QED BY <1>1, <2>1, <2>2, <2>3 DEF HoldInv
<1>4. CASE Leaves
  <2>1. UNCHANGED <<inbox, wstate, broken>> /\ child' = NoChild
    BY <1>4 DEF Leaves
  <2>2. /\ Sends
        /\ \A w \in Workers : Orderly(w)' /\ Held(w)' = Held(w)
    BY <1>2, <2>1, NoneSent
  <2>3. broken' => \A w \in Workers \ {child'} : Held(w)' = {}
    <3>1. broken => \A w \in Workers : Held(w) = {}
      BY <1>1 DEF HoldInv
    <3> QED BY <2>1, <2>2, <3>1
  <2> QED BY <1>1, <2>1, <2>2, <2>3 DEF HoldInv
<1>5. CASE Replaces
  <2>1. \A w \in Workers : Held(w) = {}
    <3>1. ASSUME child # NoChild PROVE Held(child) = {}
      <4>1. child \in Workers
        BY <1>1, <3>1
      <4>2. CASE ~Alive(child)
        <5>1. inbox[child] = <<>> /\ jobs[child] = <<>>
          BY <1>1, <4>1, <4>2 DEF Orderly
        <5> QED BY <5>1 DEF Held, HoldsOf, ExecFrames, Entries
      <4>3. CASE ~everReady
        <5>1. Held(child) \subseteq pending /\ pending = {}
          BY <3>1, <4>3 DEF HoldInv, GateInv
        <5> QED BY <5>1
      <4> QED BY <1>5, <3>1, <4>2, <4>3 DEF Replaces
    <3>2. child # NoChild \/ broken
      BY <1>5 DEF Replaces
    <3>3. \A w \in Workers \ {child} : Held(w) = {}
      BY <3>2 DEF HoldInv
    <3> QED BY <1>1, <3>1, <3>3
  <2>2. CASE Latches
    <3>1. UNCHANGED <<inbox, wstate>> /\ child' = NoChild
      BY <2>2 DEF Latches
    <3>2. /\ Sends
          /\ \A w \in Workers : Orderly(w)' /\ Held(w)' = {}
      BY <1>2, <2>1, <3>1, NoneSent
    <3> QED BY <1>1, <3>1, <3>2 DEF HoldInv
  <2>3. CASE Forks
    <3>1. PICK box \in {<<Frame("init", 0, 0, 0)>>,
                        <<Frame("init", 0, 0, 0), Frame("beginBlock", 0, 0, 0)>>} :
             inbox' = [inbox EXCEPT ![gen + 1] = box]
      BY <2>3 DEF Forks
    <3>2. /\ gen + 1 \in Workers /\ gen + 1 > gen /\ child' = gen + 1
          /\ wstate' = [wstate EXCEPT ![gen + 1] = "starting"]
      BY <1>1, <2>3, WorkerAssumption DEF Forks
    <3>3. box \in Seq(Frames) /\ ExecOnce(box) /\ ExecFrames(box) = {}
      BY FreshBox
    <3>4. jobs[gen + 1] = <<>>
      <4>1. ~Alive(gen + 1)
        BY <3>2 DEF GateInv, Alive
      <4> QED BY <1>1, <3>2, <4>1 DEF Orderly
    <3>5. /\ inbox' \in [Workers -> Seq(Frames)]
          /\ \A w \in Workers : /\ inbox'[w] = IF w = gen + 1 THEN box ELSE inbox[w]
                                /\ wstate'[w] = IF w = gen + 1 THEN "starting" ELSE wstate[w]
      BY <1>1, <3>1, <3>2, <3>3
    <3>6. Entries(<<>>) = {} /\ Len(<<>>) <= 1
      BY DEF Entries
    <3>7. ASSUME NEW w \in Workers
          PROVE  Orderly(w)' /\ Held(w)' = {} /\ Unstarted(w)' \subseteq Unstarted(w)
      <4>1. CASE w = gen + 1
        <5>1. inbox'[w] = box /\ jobs'[w] = <<>> /\ wstate'[w] = "starting"
          BY <1>1, <3>4, <3>5, <4>1
        <5>2. Orderly(w)'
          BY <3>3, <3>6, <5>1 DEF Orderly, Alive
        <5>3. Held(w)' = {} /\ Unstarted(w)' = {}
          BY <3>3, <3>6, <5>1 DEF Held, Unstarted, HoldsOf, WaitsOf, Chained
        <5> QED BY <5>2, <5>3
      <4>2. CASE w # gen + 1
        BY <1>1, <2>1, <3>5, <4>2 DEF Orderly, Held, Unstarted, Alive
      <4> QED BY <4>1, <4>2
    <3>8. Sends
      BY <3>7, NoneSent
    <3>9. pending' = {} /\ child' \in Workers
      BY <1>5, <3>2 DEF Replaces
    <3> QED BY <3>5, <3>7, <3>8, <3>9 DEF HoldInv, Held
  <2> QED BY <1>1, <1>5, <2>2, <2>3 DEF Replaces, Latches
<1> QED BY <1>3, <1>4, <1>5

\* What the workers hold through a step in which the executor does nothing.
LEMMA WorkerHold ==
    ASSUME TypeOK, HoldInv, UNCHANGED <<child, broken, everReady, sawReady, pending>>,
           \A v \in Workers : Lightens(v)
    PROVE  HoldInv'
<1>1. UNCHANGED <<child, broken, everReady, sawReady, pending>>
  OBVIOUS
<1>2. \A v \in Workers : Orderly(v)' /\ Held(v)' \subseteq Held(v)
  BY DEF Lightens
<1>3. \A u, v \in Workers : u = v \/ Held(u)' = {} \/ Held(v)' = {}
  BY <1>2 DEF HoldInv
<1>4. child # NoChild \/ broken => \A v \in Workers \ {child} : Held(v)' = {}
  BY <1>2 DEF HoldInv
<1>5. ASSUME child # NoChild, ~everReady \/ sawReady \/ pending # {}
      PROVE  Held(child)' \subseteq pending
  <2>1. child \in Workers /\ child' = child /\ Held(child) \subseteq pending
    BY <1>1, <1>5 DEF TypeOK, HoldInv
  <2> QED BY <1>2, <2>1 DEF Held
<1> QED BY <1>1, <1>2, <1>3, <1>4, <1>5 DEF HoldInv

(***************************************************************************)
(* The order of the calls.                                                 *)
(***************************************************************************)
\* The order through a step of the executor.
LEMMA ExecutorOrder ==
    ASSUME ExecutorInv, TypeOK', OrderInv, Accounts, Sends, UNCHANGED workerVars
    PROVE  OrderInv'
<1>1. /\ finished' = finished /\ ran' = ran
      /\ nextId' = nextId \/ nextId' = nextId + 1
      /\ Entries(queue') \subseteq Candidates
      /\ \A w \in Workers : Entries(outbox'[w]) \subseteq Entries(outbox[w])
  BY DEF workerVars, Accounts
<1>2. nextId \in Nat /\ Requests \subseteq Nat /\ pending' \subseteq Requests
  BY ExecutorAssumption DEF ExecutorInv, TypeOK, Requests
\* A new call comes after everything that was dispatched.
<1>3. ASSUME NEW i, Behind(i), NEW c \in Candidates PROVE i < c
  BY <1>3 DEF Behind, Candidates
<1>4. ASSUME NEW i, Behind(i)
      PROVE  i \in Requests /\ i < nextId' /\ \A q \in Entries(queue') : i < q
  <2>1. i \in Requests /\ i \in Nat /\ i < nextId
    BY <1>2, <1>4 DEF Behind
  <2>2. i < nextId'
    BY <1>1, <1>2, <2>1
  <2> QED BY <1>1, <1>3, <1>4, <2>1, <2>2
<1>5. PICK new \in SUBSET Candidates :
       /\ new \subseteq pending'
       /\ \A i \in new, x \in Entries(queue') : i < x
       /\ \A w \in Workers : /\ Held(w)' \subseteq Held(w) \cup new
                             /\ Unstarted(w)' \subseteq Unstarted(w) \cup new
  BY DEF Sends
<1>6. ASSUME NEW i \in new
      PROVE  i \in Requests /\ i < nextId' /\ \A q \in Entries(queue') : i < q
  <2>1. i \in Requests /\ i \in Candidates /\ i \in Nat
    BY <1>2, <1>5, <1>6
  <2>2. CASE i \in Entries(queue)
    <3>1. outcome[i] = "waiting" /\ (i >= nextId => outcome[i] = "none")
      BY <2>1, <2>2 DEF ExecutorInv, WaitingIsTracked, Tracked
    <3>2. i < nextId
      BY <1>2, <2>1, <3>1
    <3>3. i < nextId'
      BY <1>1, <1>2, <2>1, <3>2
    <3> QED BY <1>5, <1>6, <2>1, <3>3
  <2>3. CASE i = nextId /\ nextId' # nextId
    <3>1. i < nextId'
      BY <1>1, <1>2, <2>3
    <3> QED BY <1>5, <1>6, <2>1, <3>1
  <2> QED BY <2>1, <2>2, <2>3 DEF Candidates
<1>7. \A w \in Workers : Answered(outbox'[w]) \subseteq Answered(outbox[w])
  BY <1>1 DEF Answered
<1>8. \A i \in finished \cup RanIds : Behind(i)
  BY DEF OrderInv
<1>9. \A w \in Workers : \A i \in Held(w) \cup Answered(outbox[w]) : Behind(i)
  BY DEF OrderInv
<1>10. RanIds' = RanIds
  BY <1>1 DEF RanIds
<1>11. \A i \in (finished \cup RanIds)' : Behind(i)'
  BY <1>1, <1>4, <1>8, <1>10 DEF Behind
<1>12. ASSUME NEW w \in Workers, NEW i \in Held(w)' \cup Answered(outbox'[w])
       PROVE  Behind(i)'
  <2>1. i \in new \/ i \in Held(w) \cup Answered(outbox[w])
    BY <1>5, <1>7
  <2> QED BY <1>4, <1>6, <1>9, <2>1 DEF Behind
<1>13. ASSUME NEW v \in Workers, NEW w \in Workers
       PROVE  Held(v)' \cap (finished \cup Answered(outbox'[w])) = {}
  <2>1. Held(v) \cap (finished \cup Answered(outbox[w])) = {}
    BY DEF OrderInv
  <2>2. ASSUME NEW i \in new, i \in finished \cup Answered(outbox[w]) PROVE FALSE
    <3>1. i < i /\ i \in Nat
      BY <1>2, <1>3, <1>5, <1>8, <1>9, <2>2
    <3> QED BY <3>1
  <2> QED BY <1>5, <1>7, <2>1, <2>2
<1>14. ASSUME NEW w \in Workers, NEW i \in Unstarted(w)', NEW e \in RanIds PROVE e < i
  <2>1. CASE i \in new
    BY <1>3, <1>5, <1>8, <2>1
  <2>2. CASE i \in Unstarted(w)
    BY <2>2 DEF OrderInv
  <2> QED BY <1>5, <2>1, <2>2
<1>15. RunInOrderOnce'
  BY <1>1 DEF OrderInv, RunInOrderOnce
<1> QED BY <1>1, <1>10, <1>11, <1>12, <1>13, <1>14, <1>15 DEF OrderInv

\* A contract that starts comes after those that started before.
LEMMA BeginsOrder ==
    ASSUME Wires, RunInOrderOnce, NEW s \in Starts, \A e \in RanIds : e < s.id,
           ran' = Append(ran, s)
    PROVE  RunInOrderOnce' /\ RanIds' = RanIds \cup {s.id}
<1>1. /\ ran' \in Seq(Starts) /\ Len(ran') = Len(ran) + 1 /\ Len(ran) \in Nat
      /\ \A i \in 1..Len(ran) : ran'[i] = ran[i]
      /\ ran'[Len(ran) + 1] = s
      /\ Entries(ran') = Entries(ran) \cup {s}
  BY PutLast DEF Wires
<1>2. RanIds' = RanIds \cup {s.id}
  BY <1>1 DEF RanIds
<1>3. ASSUME NEW i \in 1..Len(ran'), NEW j \in 1..Len(ran'), i < j
      PROVE  ran'[i].id < ran'[j].id
  <2>1. i \in 1..Len(ran) /\ (j \in 1..Len(ran) \/ j = Len(ran) + 1)
    BY <1>1, <1>3
  <2>2. CASE j \in 1..Len(ran)
    BY <1>1, <1>3, <2>1, <2>2 DEF RunInOrderOnce
  <2>3. CASE j = Len(ran) + 1
    <3>1. ran[i].id \in RanIds
      BY <2>1 DEF RanIds, Entries
    <3> QED BY <1>1, <2>1, <2>3, <3>1
  <2> QED BY <2>1, <2>2, <2>3
<1>4. RunInOrderOnce'
  BY <1>3 DEF RunInOrderOnce
<1> QED BY <1>2, <1>4

\* The order, and the truth of the answers, through a step of a worker.
LEMMA WorkerOrder ==
    ASSUME ExecutorInv, Wires, HoldInv, OrderInv, AnswerInv, NEW w \in Workers,
           UNCHANGED executorVars,
           \A v \in Workers : Lightens(v),
           \A v \in Workers \ {w} : outbox'[v] = outbox[v],
           Mutters(w) \/ Begins(w) \/ Ends(w)
    PROVE  OrderInv' /\ AnswerInv'
<1>1. /\ UNCHANGED <<nextId, queue, outcome>>
      /\ outbox \in [Workers -> Seq(Replies)] /\ outbox[w] \in Seq(Replies)
      /\ \A i : Behind(i)' <=> Behind(i)
  BY DEF executorVars, promiseVars, Wires, Behind
<1>2. \A v \in Workers : Held(v)' \subseteq Held(v) /\ Unstarted(v)' \subseteq Unstarted(v)
  BY DEF Lightens
<1>3. /\ \A i \in finished \cup RanIds : Behind(i)
      /\ \A v \in Workers : \A i \in Held(v) \cup Answered(outbox[v]) : Behind(i)
      /\ \A u, v \in Workers : Held(u) \cap (finished \cup Answered(outbox[v])) = {}
      /\ \A v \in Workers : \A i \in Unstarted(v), e \in RanIds : e < i
      /\ RunInOrderOnce
  BY DEF OrderInv
<1>4. /\ \A v \in Workers : \A r \in Entries(outbox[v]) :
           r.type = "result" /\ Genuine(r) => r.id \in finished
      /\ \A i \in Requests : outcome[i] = "result" => i \in finished
  BY DEF AnswerInv, ResultsAreGenuine
\* The replies of w with one more.
<1>5. ASSUME NEW r \in Replies, outbox' = [outbox EXCEPT ![w] = Append(@, r)]
      PROVE  /\ Entries(outbox'[w]) = Entries(outbox[w]) \cup {r}
             /\ Answered(outbox'[w]) = Answered(outbox[w]) \cup (IF Genuine(r) THEN {r.id} ELSE {})
  <2>1. outbox'[w] = Append(outbox[w], r)
    BY <1>1, <1>5
  <2>2. Entries(outbox'[w]) = Entries(outbox[w]) \cup {r}
    BY <1>1, <2>1, PutLast
  <2> QED BY <2>2 DEF Answered
<1>6. CASE Mutters(w)
  <2>1. ran' = ran /\ finished' = finished /\ RanIds' = RanIds
    BY <1>6 DEF Mutters, RanIds
  <2>2. /\ Answered(outbox'[w]) \subseteq Answered(outbox[w]) \cup finished
        /\ \A r \in Entries(outbox'[w]) : r.type = "result" /\ Genuine(r) => r.id \in finished
    <3>1. CASE outbox' = outbox
      BY <1>4, <3>1
    <3>2. ASSUME NEW r \in Replies, Genuine(r) => r.id \in finished,
                 outbox' = [outbox EXCEPT ![w] = Append(@, r)]
          PROVE  <2>2
      BY <1>4, <1>5, <3>2
    <3> QED BY <1>6, <3>1, <3>2 DEF Mutters
  <2>3. \A v \in Workers : Answered(outbox'[v]) \subseteq Answered(outbox[v]) \cup finished
    BY <2>2
  <2>4. OrderInv'
    <3>1. \A i \in (finished \cup RanIds)' : Behind(i)'
      BY <1>1, <1>3, <2>1
    <3>2. \A v \in Workers : \A i \in Held(v)' \cup Answered(outbox'[v]) : Behind(i)'
      BY <1>1, <1>2, <1>3, <2>3
    <3>3. \A u, v \in Workers : Held(u)' \cap (finished' \cup Answered(outbox'[v])) = {}
      BY <1>2, <1>3, <2>1, <2>3
    <3>4. \A v \in Workers : \A i \in Unstarted(v)', e \in RanIds' : e < i
      BY <1>2, <1>3, <2>1
    <3>5. RunInOrderOnce'
      BY <1>3, <2>1 DEF RunInOrderOnce
    <3> QED BY <3>1, <3>2, <3>3, <3>4, <3>5 DEF OrderInv
  <2>5. AnswerInv'
    BY <1>1, <1>4, <2>1, <2>2 DEF AnswerInv, ResultsAreGenuine
  <2> QED BY <2>4, <2>5
<1>7. CASE Begins(w)
  <2>1. PICK s \in Starts : s.id \in Unstarted(w) \cap Held(w) /\ ran' = Append(ran, s)
    BY <1>7 DEF Begins
  <2>2. /\ outbox' = outbox /\ finished' = finished /\ Unstarted(w)' = {}
    BY <1>7 DEF Begins
  <2>3. RunInOrderOnce' /\ RanIds' = RanIds \cup {s.id}
    BY <1>3, <2>1, BeginsOrder
  <2>4. \A v \in Workers : Unstarted(v)' = {}
    <3>1. \A v \in Workers \ {w} : Held(v) = {}
      BY <2>1 DEF HoldInv
    <3>2. \A v \in Workers : Unstarted(v) \subseteq Held(v)
      BY DEF Unstarted, Held, WaitsOf, HoldsOf, Chained
    <3>3. \A v \in Workers \ {w} : Unstarted(v)' = {}
      BY <1>2, <3>1, <3>2
    <3> QED BY <2>2, <3>3
  <2>5. OrderInv'
    <3>1. \A i \in (finished \cup RanIds)' : Behind(i)'
      BY <1>1, <1>3, <2>1, <2>2, <2>3
    <3>2. \A v \in Workers : \A i \in Held(v)' \cup Answered(outbox'[v]) : Behind(i)'
      BY <1>1, <1>2, <1>3, <2>2
    <3>3. \A u, v \in Workers : Held(u)' \cap (finished' \cup Answered(outbox'[v])) = {}
      BY <1>2, <1>3, <2>2
    <3> QED BY <2>3, <2>4, <3>1, <3>2, <3>3 DEF OrderInv
  <2>6. AnswerInv'
    BY <1>1, <1>4, <2>2 DEF AnswerInv, ResultsAreGenuine
  <2> QED BY <2>5, <2>6
<1>8. CASE Ends(w)
  <2>1. Held(w)' = {} /\ ran' = ran /\ RanIds' = RanIds
    BY <1>8 DEF Ends, RanIds
  <2>2. PICK id \in Held(w), type \in {"result", "hostfault"} :
         /\ outbox' = [outbox EXCEPT ![w] = Append(@, Reply(type, id, newDispatchToken(id)))]
         /\ finished' = IF type = "result" THEN finished \cup {id} ELSE finished
    BY <1>8 DEF Ends
  <2> DEFINE r == Reply(type, id, newDispatchToken(id))
  <2>3. r \in Replies /\ Genuine(r) /\ r.id = id /\ r.type = type
    <3>1. id \in Nat /\ type \in ReplyTypes
      BY <1>3, <2>2, ExecutorAssumption DEF Behind, Requests, ReplyTypes
    <3> QED BY <2>2, <3>1, ReplyType DEF newDispatchToken, Genuine
  <2> HIDE DEF r
  <2>4. /\ Entries(outbox'[w]) = Entries(outbox[w]) \cup {r}
        /\ Answered(outbox'[w]) = Answered(outbox[w]) \cup {id}
    BY <1>5, <2>2, <2>3 DEF r
  <2>5. \A v \in Workers : Held(v)' = {}
    <3>1. \A v \in Workers \ {w} : Held(v) = {}
      BY <2>2 DEF HoldInv
    <3> QED BY <1>2, <2>1, <3>1
  <2>6. finished \subseteq finished' /\ finished' \subseteq finished \cup {id}
        /\ (type = "result" => id \in finished')
    BY <2>2
  <2>7. \A v \in Workers : Answered(outbox'[v]) \subseteq Answered(outbox[v]) \cup {id}
    BY <2>4
  <2>8. OrderInv'
    <3>1. \A i \in (finished \cup RanIds)' : Behind(i)'
      BY <1>1, <1>3, <2>1, <2>2, <2>6
    <3>2. \A v \in Workers : \A i \in Held(v)' \cup Answered(outbox'[v]) : Behind(i)'
      BY <1>1, <1>3, <2>2, <2>5, <2>7
    <3>3. \A u, v \in Workers : Held(u)' \cap (finished' \cup Answered(outbox'[v])) = {}
      BY <2>5
    <3>4. \A v \in Workers : \A i \in Unstarted(v)', e \in RanIds' : e < i
      BY <1>2, <1>3, <2>1
    <3>5. RunInOrderOnce'
      BY <1>3, <2>1 DEF RunInOrderOnce
    <3> QED BY <3>1, <3>2, <3>3, <3>4, <3>5 DEF OrderInv
  <2>9. \A v \in Workers : \A x \in Entries(outbox'[v]) :
           x.type = "result" /\ Genuine(x) => x.id \in finished'
    <3> SUFFICES ASSUME NEW v \in Workers, NEW x \in Entries(outbox'[v]),
                        x.type = "result", Genuine(x)
                 PROVE  x.id \in finished'
      OBVIOUS
    <3>1. x \in Entries(outbox[v]) \/ x = r
      BY <2>4
    <3> QED BY <1>4, <2>3, <2>6, <3>1
  <2>10. AnswerInv'
    BY <1>1, <1>4, <2>6, <2>9 DEF AnswerInv, ResultsAreGenuine
  <2> QED BY <2>8, <2>10
<1> QED BY <1>6, <1>7, <1>8

(***************************************************************************)
(* The invariant, and what follows.                                        *)
(***************************************************************************)
\* The calls from the queue to the answer: what is on the wire, the gate, who
\* holds what, the order, and the truth of the answers.
CallsInv == Wires /\ GateInv /\ HoldInv /\ OrderInv /\ AnswerInv

\* Nothing has been sent but the init frame.
LEMMA InitCalls == Init => CallsInv
<1> SUFFICES ASSUME Init PROVE CallsInv
  OBVIOUS
<1> USE WorkerAssumption, ExecutorAssumption
<1>1. /\ outbox = [w \in Workers |-> <<>>] /\ jobs = [w \in Workers |-> <<>>]
      /\ killed = [w \in Workers |-> FALSE]
      /\ wsnap = [w \in Workers |-> NoWorkerSnapshot] /\ ran = <<>> /\ finished = {}
      /\ pending = {} /\ queue = <<>> /\ nextId = 1
      /\ sawReady = FALSE /\ everReady = FALSE /\ chan = NoSnapshot
      /\ outcome = [i \in Requests |-> "none"]
      /\ gen = (IF broken THEN 0 ELSE 1) /\ child = (IF broken THEN NoChild ELSE 1)
      /\ wstate = [w \in Workers |-> IF w = child THEN "starting" ELSE "absent"]
      /\ inbox = [w \in Workers |-> IF w = child THEN <<Frame("init", 0, 0, 0)>> ELSE <<>>]
  BY DEF Init, ExecutorInit, IPCInit, WorkerInit
<1>2. /\ <<Frame("init", 0, 0, 0)>> \in Seq(Frames)
      /\ ExecOnce(<<Frame("init", 0, 0, 0)>>) /\ ExecFrames(<<Frame("init", 0, 0, 0)>>) = {}
  BY FreshBox
<1>3. /\ Entries(<<>>) = {} /\ Len(<<>>) = 0 /\ <<>> \in Seq(Frames) /\ <<>> \in Seq(Jobs)
      /\ <<>> \in Seq(Replies) /\ <<>> \in Seq(Starts)
  BY DEF Entries
<1>4. ExecFrames(<<>>) = {} /\ ExecOnce(<<>>)
  <2>1. ExecFrames(<<>>) = {}
    BY <1>3 DEF ExecFrames
  <2> QED BY <2>1 DEF ExecOnce
<1> DEFINE first == <<Frame("init", 0, 0, 0)>>
<1> HIDE DEF first
<1>5. \A w \in Workers : /\ inbox[w] = (IF w = child THEN first ELSE <<>>)
                         /\ jobs[w] = <<>> /\ outbox[w] = <<>>
                         /\ wstate[w] = (IF w = child THEN "starting" ELSE "absent")
  BY <1>1 DEF first
<1>6. \A w \in Workers : ExecFrames(inbox[w]) = {} /\ ExecOnce(inbox[w]) /\ inbox[w] \in Seq(Frames)
  BY <1>2, <1>3, <1>4, <1>5 DEF first
<1>7. Wires
  <2>1. NoWorkerSnapshot \in [token : Nat, val : Nat]
    BY DEF NoWorkerSnapshot, NoToken
  <2>2. inbox \in [Workers -> Seq(Frames)]
    BY <1>1, <1>6
  <2> QED BY <1>1, <1>3, <2>1, <2>2 DEF Wires
<1>8. \A w \in Workers : Held(w) = {} /\ Unstarted(w) = {} /\ Answered(outbox[w]) = {}
  BY <1>3, <1>5, <1>6 DEF Held, Unstarted, HoldsOf, WaitsOf, Chained, Answered
<1>9. \A w \in Workers : Orderly(w)
  BY <1>3, <1>5, <1>6 DEF Orderly, Alive
<1>10. GateInv
  BY <1>1 DEF GateInv, NoChild, NoSnapshot, Workers
<1>11. HoldInv
  <2>1. child # NoChild => child \in Workers
    BY <1>1 DEF NoChild, Workers
  <2> QED BY <1>8, <1>9, <2>1 DEF HoldInv
<1>12. OrderInv
  <2>1. RanIds = {} /\ RunInOrderOnce
    BY <1>1, <1>3 DEF RanIds, RunInOrderOnce
  <2> QED BY <1>1, <1>8, <2>1 DEF OrderInv
<1>13. AnswerInv
  <2>1. \A w \in Workers : Entries(outbox[w]) = {}
    BY <1>3, <1>5
  <2> QED BY <1>1, <2>1 DEF AnswerInv, ResultsAreGenuine
<1> QED BY <1>7, <1>10, <1>11, <1>12, <1>13 DEF CallsInv

\* Every step keeps the invariant.
LEMMA NextCalls == ExecutorInv /\ ExecutorInv' /\ CallsInv /\ [Next]_vars => CallsInv'
<1> SUFFICES ASSUME ExecutorInv, ExecutorInv', CallsInv, [Next]_vars PROVE CallsInv'
  OBVIOUS
<1>1. /\ TypeOK /\ TypeOK' /\ Wires /\ GateInv /\ HoldInv /\ OrderInv /\ AnswerInv
      /\ broken => child = NoChild
  BY DEF ExecutorInv, CallsInv
<1>2. CASE UNCHANGED vars
  <2>1. /\ UNCHANGED <<inbox, outbox, jobs, wsnap, ran, finished, child, gen, sawReady, everReady,
                       pending, chan, killed, wstate, broken, queue, nextId, outcome>>
    BY <1>2 DEF vars, executorVars, ipcVars, workerVars, promiseVars, slotVars, latchVars, chanVars
  <2>2. Wires' /\ GateInv'
    BY <1>1, <2>1 DEF Wires, GateInv
  <2>3. \A w \in Workers : /\ Held(w)' = Held(w) /\ Unstarted(w)' = Unstarted(w)
                           /\ Lightens(w)
    BY <1>1, <2>1 DEF HoldInv, Lightens, Held, Unstarted, Orderly, Alive
  <2>4. HoldInv'
    BY <1>1, <2>1, <2>3, WorkerHold
  <2>5. OrderInv'
    BY <1>1, <2>1, <2>3 DEF OrderInv, RunInOrderOnce, RanIds, Behind
  <2>6. AnswerInv'
    BY <1>1, <2>1 DEF AnswerInv, ResultsAreGenuine
  <2> QED BY <2>2, <2>4, <2>5, <2>6 DEF CallsInv
<1>3. ASSUME NEW w \in Workers, Worker(w) PROVE CallsInv'
  <2>1. \A v \in Workers : Orderly(v)
    BY <1>1 DEF HoldInv
  <2>2. /\ Wires'
        /\ \A v \in Workers : Lightens(v)
        /\ \A v \in Workers \ {w} : outbox'[v] = outbox[v]
        /\ Mutters(w) \/ Begins(w) \/ Ends(w)
    BY <1>1, <1>3, <2>1, WorkerShape
  <2>3. GateInv'
    BY <1>1, <1>3, WorkerGate
  <2>5. UNCHANGED executorVars
    BY <1>3 DEF Worker
  <2>4. HoldInv'
    <3>1. UNCHANGED <<child, broken, everReady, sawReady, pending>>
      BY <2>5 DEF executorVars, slotVars, latchVars
    <3> QED BY <1>1, <2>2, <3>1, WorkerHold
  <2>6. OrderInv' /\ AnswerInv'
    BY <1>1, <2>2, <2>5, WorkerOrder
  <2> QED BY <2>2, <2>3, <2>4, <2>6 DEF CallsInv
<1>4. CASE Executor
  <2>1. Accounts /\ (Serves \/ Dooms \/ Replaces \/ Leaves)
    BY <1>1, <1>4, ExecutorShape
  <2>2. UNCHANGED workerVars
    BY <1>4 DEF Executor
  <2>3. inbox' \in [Workers -> Seq(Frames)] /\ HoldInv' /\ Sends
    BY <1>1, <2>1, <2>2, ServesHold, OthersHold
  <2>4. GateInv'
    BY <1>1, <2>1, ExecutorGate
  <2>5. OrderInv'
    BY <1>1, <2>1, <2>2, <2>3, ExecutorOrder
  <2>6. Wires'
    BY <1>1, <2>1, <2>2, <2>3 DEF Wires, workerVars, Accounts
  <2>7. AnswerInv'
    <3>1. finished' = finished /\ \A w \in Workers : Entries(outbox'[w]) \subseteq Entries(outbox[w])
      BY <2>1, <2>2 DEF workerVars, Accounts
    <3>2. \A w \in Workers : \A r \in Entries(outbox'[w]) :
             r.type = "result" /\ Genuine(r) => r.id \in finished'
      BY <1>1, <3>1 DEF AnswerInv
    <3>3. ASSUME NEW i \in Requests, outcome'[i] = "result" PROVE i \in finished
      BY <1>1, <2>1, <3>3 DEF Accounts, AnswerInv, ResultsAreGenuine
    <3> QED BY <3>1, <3>2, <3>3 DEF AnswerInv, ResultsAreGenuine
  <2> QED BY <2>3, <2>4, <2>5, <2>6, <2>7 DEF CallsInv
<1> QED BY <1>2, <1>3, <1>4 DEF Next

\* Both invariants hold in every reachable state.
LEMMA CallsHold == Spec => [](ExecutorInv /\ CallsInv)
<1>1. Init => ExecutorInv /\ CallsInv
  BY InitInv, InitCalls
<1>2. ExecutorInv /\ CallsInv /\ [Next]_vars => (ExecutorInv /\ CallsInv)'
  BY NextInv, NextCalls
<1> QED BY <1>1, <1>2, PTL DEF Spec

\* Contracts run in the order of the execute() calls and none runs twice: a call
\* whose worker died in mid-contract is settled and not run again
\* (process-executor.js and vm-worker.js).
THEOREM RunsInOrder == Spec => []RunInOrderOnce
<1>1. ExecutorInv /\ CallsInv => RunInOrderOnce
  BY DEF CallsInv, OrderInv
<1> QED BY <1>1, CallsHold, PTL

\* A promise resolves with a result only if the contract ran to its end, whatever
\* forged, repeated, late or malformed replies a worker sends (replyFault()).
THEOREM GenuineResults == Spec => []ResultsAreGenuine
<1>1. ExecutorInv /\ CallsInv => ResultsAreGenuine
  BY DEF CallsInv, AnswerInv
<1> QED BY <1>1, CallsHold, PTL

\* flush() dispatches nothing to a worker the executor has sent a SIGKILL, or
\* before that worker's first ready frame, whatever frames it still sends.
THEOREM NothingToTheDoomed == Spec => NoDispatchToDoomed
<1> DEFINE Fresh == \A i \in pending' \ pending : ~killed[child] /\ everReady'
<1>1. ExecutorInv /\ CallsInv /\ [Next]_vars => [Fresh]_vars
  <2> SUFFICES ASSUME ExecutorInv, CallsInv, [Next]_vars PROVE Fresh
    OBVIOUS
  <2>1. Wires /\ GateInv
    BY DEF CallsInv
  <2>2. CASE Executor
    <3>1. Serves \/ Dooms \/ Replaces \/ Leaves
      BY <2>1, <2>2, ExecutorShape
    <3>2. CASE Dooms \/ Replaces \/ Leaves
      BY <3>2 DEF Dooms, Replaces, Leaves
    <3>3. CASE Serves
      <4>1. PICK pd \in InFlight : Flushes(Candidates, pd, sawReady' /\ child # NoChild)
        BY <3>3 DEF Serves
      <4>2. pd \subseteq pending
        BY <4>1 DEF InFlight
      <4>3. CASE pending' = pd
        BY <4>2, <4>3
      <4>4. CASE sawReady' /\ child # NoChild
        <5>1. \/ UNCHANGED <<sawReady, everReady>>
              \/ ~everReady /\ everReady'
          BY <3>3, <4>4 DEF Serves
        <5>2. /\ sawReady => everReady
              /\ killed[child] => everReady /\ ~sawReady
          BY <2>1, <4>4, Zenon DEF GateInv
        <5>3. ~killed[child] /\ everReady'
          BY <4>4, <5>1, <5>2, Zenon
        <5> QED BY <5>3, Zenon
      <4> QED BY <4>1, <4>3, <4>4 DEF Flushes
    <3> QED BY <3>1, <3>2, <3>3
  <2>3. CASE UNCHANGED vars \/ \E w \in Workers : Worker(w)
    <3>1. pending' = pending
      BY <2>3 DEF Worker, vars, executorVars
    <3> QED BY <3>1
  <2> QED BY <2>2, <2>3 DEF Next
<1> QED BY <1>1, CallsHold, PTL DEF Spec, NoDispatchToDoomed

(***************************************************************************)
(* Snapshots.  Every token stands for one value, and a reference reaches   *)
(* a worker only while its snapshot is in place there.                     *)
(***************************************************************************)
\* The snapshot a waiting call carries is the one of the block that is open.
BlockInv ==
    /\ \A i \in Requests : outcome[i] = "waiting" /\ hasSerializableCrossChainSnapshot(opts[i])
                              => opts[i].data = blockNo
    /\ chan.set => chan.snapshot = blockNo
    /\ chan.sent => chan.set
    /\ chan.acked => chan.sent

\* A frame means the data of its call; a snapshot frame, the value of its token.
Carries(V, n, o, x) ==
    IF x.ref = NoToken THEN x.val = o[x.id].data
                       ELSE x.ref < n /\ V[x.ref] = o[x.id].data
Meant(V, n, o, f) ==
    /\ f.type = "snapshot" => f.ref \in 1..n - 1 /\ V[f.ref] = f.val
    /\ f.type = "execute" => Carries(V, n, o, f)

TokenInv(V) ==
    /\ nextTok > 0
    /\ chan.set => chan.token \in 1..nextTok - 1 /\ V[chan.token] = chan.snapshot
    /\ \A w \in Workers : \A f \in Entries(inbox[w]) : Meant(V, nextTok, opts, f)
    /\ \A w \in Workers : \A j \in Entries(jobs[w]) : Carries(V, nextTok, opts, j)
    /\ \A w \in Workers : wsnap[w].token # NoToken =>
          wsnap[w].token < nextTok /\ V[wsnap[w].token] = wsnap[w].val
    /\ \A w \in Workers : \A r \in Entries(outbox[w]) : r.type = "snapshotAck" => r.tok < nextTok
    /\ RanOnItsSnapshot

\* No frame in the box will change the snapshot that is in place.
Undisturbed(f) == f.type \notin {"snapshot", "endBlock"}
Steady(box) == \A f \in Entries(box) : Undisturbed(f)

\* After the frame that sets the token, none changes the snapshot.
LastWord(box, tok) ==
    \A a, b \in 1..Len(box) :
        a < b /\ box[a].type = "snapshot" /\ box[a].ref = tok => Undisturbed(box[b])

AckSeen == \E r \in Entries(outbox[child]) :
              r.type = "snapshotAck" /\ chan.sent /\ r.tok = chan.token

Awaited(x) == x.id \in pending /\ x.ref # NoToken => chan.acked /\ x.ref = chan.token

AckInv ==
    child # NoChild /\ Alive(child) =>
        /\ chan.acked \/ AckSeen => wsnap[child].token = chan.token /\ Steady(inbox[child])
        /\ chan.sent => LastWord(inbox[child], chan.token)
        /\ chan.set /\ ~chan.sent =>
             /\ \A r \in Entries(outbox[child]) : r.type # "snapshotAck"
             /\ \A f \in Entries(inbox[child]) : f.type # "snapshot"
        /\ \A f \in ExecFrames(inbox[child]) : Awaited(f)
        /\ \A j \in Entries(jobs[child]) : Awaited(j)

\* A worker not forked yet has said nothing.
Silence == \A w \in Workers : w > gen => Entries(outbox[w]) = {}

SnapInv == BlockInv /\ (\E V \in [Nat -> Nat] : TokenInv(V)) /\ AckInv /\ Silence

(***************************************************************************)
(* What a step of the executor does to the snapshot channel.               *)
(***************************************************************************)
SameChoice ==
    /\ chan'.set = chan.set /\ chan'.token = chan.token /\ chan'.snapshot = chan.snapshot
    /\ nextTok' = nextTok
SameWorker == UNCHANGED <<child, gen, wstate>>
AckKept == chan'.acked => chan.acked \/ AckSeen

\* The choice stays, nothing is sent.
Keeps ==
    /\ child' \in {child, NoChild} /\ UNCHANGED <<gen, wstate>>
    /\ SameChoice /\ chan'.sent = chan.sent /\ AckKept /\ (chan.acked => chan'.acked)
    /\ inbox' = inbox /\ pending' \subseteq pending

\* The snapshot goes to a worker that has not been sent it.
Resends ==
    /\ SameWorker /\ SameChoice
    /\ chan.set /\ ~chan.sent /\ chan'.sent /\ ~chan'.acked
    /\ pending' = {}
    /\ Posted(Frame("snapshot", 0, chan.token, chan.snapshot))

\* The block's snapshot is chosen, and sent.
Picks ==
    /\ SameWorker
    /\ ~chan.set /\ chan'.set /\ chan'.sent /\ ~chan'.acked
    /\ chan'.token = nextTok /\ chan'.snapshot = blockNo /\ nextTok' = nextTok + 1
    /\ pending' = {}
    /\ Posted(Frame("snapshot", 0, nextTok, blockNo))

\* A call is dispatched, inline or with a reference to an acknowledged snapshot.
Gives ==
    /\ SameWorker /\ SameChoice /\ chan'.sent = chan.sent /\ AckKept
    /\ chan.set => chan'.acked
    /\ \E id \in Requests :
         /\ \A w \in Workers : id \notin Held(w)
         /\ pending' = {id}
         /\ hasSerializableCrossChainSnapshot(opts'[id]) => opts'[id].data = blockNo
         /\ Posted(ExecuteFrame(chan, id, opts'[id]))

\* A block begins or ends.
Turns ==
    /\ SameWorker
    /\ chan' = NoSnapshot /\ nextTok' = nextTok /\ pending' = {}
    /\ \E type \in {"beginBlock", "endBlock"} : Posted(Frame(type, 0, 0, 0))

\* Another worker comes, or the latch trips.
Respawns ==
    /\ SameChoice /\ ~chan'.sent /\ ~chan'.acked
    /\ pending' = {} /\ (Forks \/ Latches)

Steers == Keeps \/ Resends \/ Picks \/ Gives \/ Turns \/ Respawns

\* The snapshots the waiting calls carry after the step.
Dated ==
    \A i \in Requests : outcome'[i] = "waiting" /\ hasSerializableCrossChainSnapshot(opts'[i])
                           => opts'[i].data = blockNo'

\* The calls given so far keep their opts.
Kept == \A i \in Requests : i < nextId => opts'[i] = opts[i]

\* The channel after hold(), and the frame it sends: none when the snapshot is on
\* its way, the snapshot when it has not been sent, or the one that is chosen.
Same(new, ch) == new.set = ch.set /\ new.token = ch.token /\ new.snapshot = ch.snapshot
                 /\ new.acked = ch.acked /\ new.sent
HoldsBack(fs, new, ch, o, b, tok) ==
    \/ fs = <<>> /\ Same(new, ch) /\ ch.set /\ ch.sent /\ ~Chooses(ch, o, b)
    \/ /\ fs = <<Frame("snapshot", 0, ch.token, ch.snapshot)>> /\ Same(new, ch)
       /\ ch.set /\ ~ch.sent /\ ~ch.acked /\ ~Chooses(ch, o, b)
    \/ /\ fs = <<Frame("snapshot", 0, tok, o.data)>>
       /\ new.set /\ new.token = tok /\ new.snapshot = o.data /\ new.sent /\ ~new.acked
       /\ ~ch.set /\ Chooses(ch, o, b) /\ hasSerializableCrossChainSnapshot(o)

\* hold() is one of the three.
LEMMA HeldFrame ==
    ASSUME NEW ch \in Channels, NEW o, NEW b, NEW tok, hold(ch, o, b)
    PROVE  HoldsBack(HeldFrames(ch, o, b, tok), HeldChannel(ch, o, b, tok), ch, o, b, tok)
<1>1. CASE Chooses(ch, o, b)
  BY <1>1 DEF Chooses, HeldFrames, HeldChannel, HoldsBack
<1>2. CASE ~Chooses(ch, o, b)
  <2>1. ch.set /\ ~ch.acked
    BY <1>2 DEF hold
  <2>2. HeldChannel(ch, o, b, tok) = [ch EXCEPT !.sent = TRUE, !.timer = (ch.timer \/ ~ch.sent)]
    BY <1>2 DEF HeldChannel
  <2>3. Same(HeldChannel(ch, o, b, tok), ch)
    BY <2>2 DEF Channels, Same
  <2>4. HeldFrames(ch, o, b, tok) = IF ch.set /\ ch.sent THEN <<>>
             ELSE <<Frame("snapshot", 0, ch.token, ch.snapshot)>>
    BY <2>3 DEF HeldFrames, Same
  <2> QED BY <1>2, <2>1, <2>3, <2>4 DEF HoldsBack
<1> QED BY <1>1, <1>2

\* send() of nothing.
LEMMA SendNothing ==
    ASSUME Wires, child \in Workers \cup {NoChild}, SendFrames(<<>>)
    PROVE  inbox' = inbox
<1>1. CASE child # NoChild /\ inbox' = [inbox EXCEPT ![child] = @ \o <<>>]
  <2>1. inbox[child] \o <<>> = inbox[child] /\ inbox \in [Workers -> Seq(Frames)]
    BY <1>1, ConcatEmptySeq DEF Wires
  <2> QED BY <1>1, <2>1
<1> QED BY <1>1 DEF SendFrames

\* flush() keeps, resends, picks or gives.
LEMMA FlushSteers ==
    ASSUME NEW STATE q, NEW STATE pd, NEW STATE ch, NEW STATE oc, NEW STATE ready,
           Typed(q, pd, oc), ch \in Channels, chan \in Channels, nextTok \in Nat, blockNo \in Nat,
           opts' \in [Requests -> [kind : AllOptKinds, data : Nat]],
           Wires, child \in Workers \cup {NoChild}, SameWorker, pd \subseteq pending,
           ch.set = chan.set, ch.token = chan.token, ch.snapshot = chan.snapshot,
           ch.sent = chan.sent, chan.acked => ch.acked,
           ch.acked => ch.sent /\ (chan.acked \/ AckSeen),
           \A i \in Entries(q) : /\ oc[i] = "waiting"
                                 /\ \A w \in Workers : i \notin Held(w),
           \A i \in Requests : oc[i] = "waiting" /\ hasSerializableCrossChainSnapshot(opts'[i])
                                 => opts'[i].data = blockNo,
           flush(q, pd, ch, oc, ready)
    PROVE  Steers /\ \A i \in Requests : outcome'[i] = "waiting" => oc[i] = "waiting"
<1>1. CASE pd # {} \/ child = NoChild \/ ~ready \/ ~connected
  <2>1. pending' = pd /\ chan' = ch /\ outcome' = oc /\ inbox' = inbox /\ nextTok' = nextTok
    BY <1>1 DEF flush
  <2>2. Keeps
    BY <2>1 DEF Keeps, SameWorker, SameChoice, AckKept
  <2> QED BY <2>1, <2>2 DEF Steers
<1>2. CASE ~(pd # {} \/ child = NoChild \/ ~ready \/ ~connected)
  <2>1. PICK k \in 0..Len(q) :
          /\ outcome' = Settle(oc, {q[j] : j \in 1..k}, "hostfault")
          /\ \/ /\ pending' = pd /\ chan' = ch /\ inbox' = inbox /\ nextTok' = nextTok
             \/ /\ k < Len(q) /\ hold(ch, opts'[q[k + 1]], inBlock)
                /\ pending' = pd
                /\ chan' = HeldChannel(ch, opts'[q[k + 1]], inBlock, nextTok)
                /\ SendFrames(HeldFrames(ch, opts'[q[k + 1]], inBlock, nextTok))
                /\ nextTok' = IF Chooses(ch, opts'[q[k + 1]], inBlock) THEN nextTok + 1 ELSE nextTok
             \/ /\ k < Len(q) /\ ~hold(ch, opts'[q[k + 1]], inBlock)
                /\ pending' = {q[k + 1]} /\ chan' = ch /\ nextTok' = nextTok
                /\ SendFrames(<<ExecuteFrame(ch, q[k + 1], opts'[q[k + 1]])>>)
    BY <1>2, Zenon DEF flush
  <2>2. q \in Seq(Requests) /\ pd = {} /\ Len(q) \in Nat
    BY <1>2, LenProperties DEF Typed
  <2>3. \A i \in Requests : outcome'[i] = "waiting" => oc[i] = "waiting"
    BY <2>1 DEF Settle
  <2>4. ASSUME k < Len(q)
        PROVE  /\ q[k + 1] \in Requests /\ q[k + 1] \in Nat /\ q[k + 1] \in Entries(q)
               /\ opts'[q[k + 1]] \in [kind : AllOptKinds, data : Nat]
    <3>1. k + 1 \in 1..Len(q)
      BY <2>2, <2>4
    <3>2. q[k + 1] \in Requests /\ q[k + 1] \in Entries(q)
      BY <2>2, <3>1, ElementOfSeq DEF Entries
    <3> QED BY <3>2, ExecutorAssumption DEF Requests
  <2>5. CASE pending' = pd /\ chan' = ch /\ inbox' = inbox /\ nextTok' = nextTok
    <3>1. Keeps
      BY <2>5 DEF Keeps, SameWorker, SameChoice, AckKept
    <3> QED BY <2>3, <3>1 DEF Steers
  <2>6. CASE /\ k < Len(q) /\ hold(ch, opts'[q[k + 1]], inBlock)
             /\ pending' = pd
             /\ chan' = HeldChannel(ch, opts'[q[k + 1]], inBlock, nextTok)
             /\ SendFrames(HeldFrames(ch, opts'[q[k + 1]], inBlock, nextTok))
             /\ nextTok' = IF Chooses(ch, opts'[q[k + 1]], inBlock) THEN nextTok + 1 ELSE nextTok
    <3> DEFINE o == opts'[q[k + 1]]
    <3>1. o \in [kind : AllOptKinds, data : Nat]
      BY <2>4, <2>6
    <3>2. hasSerializableCrossChainSnapshot(o) => o.data = blockNo
      BY <2>4, <2>6
    <3> HIDE DEF o
    <3>3. /\ hold(ch, o, inBlock) /\ chan' = HeldChannel(ch, o, inBlock, nextTok)
          /\ SendFrames(HeldFrames(ch, o, inBlock, nextTok))
          /\ nextTok' = IF Chooses(ch, o, inBlock) THEN nextTok + 1 ELSE nextTok
      BY <2>6 DEF o
    <3> DEFINE fs == HeldFrames(ch, o, inBlock, nextTok)
               new == HeldChannel(ch, o, inBlock, nextTok)
    <3>4. HoldsBack(fs, new, ch, o, inBlock, nextTok)
      BY <3>3, HeldFrame
    <3>5. SendFrames(fs) /\ chan' = new
      BY <3>3
    <3> HIDE DEF fs, new
    <3>6. CASE fs = <<>> /\ Same(new, ch) /\ ch.set /\ ch.sent /\ ~Chooses(ch, o, inBlock)
      <4>1. inbox' = inbox /\ nextTok' = nextTok
        BY <3>3, <3>5, <3>6, SendNothing
      <4>2. Keeps
        BY <2>2, <2>6, <3>5, <3>6, <4>1 DEF Keeps, SameWorker, SameChoice, AckKept, Same, Channels
      <4> QED BY <2>3, <4>2 DEF Steers
    <3>7. CASE /\ fs = <<Frame("snapshot", 0, ch.token, ch.snapshot)>> /\ Same(new, ch)
               /\ ch.set /\ ~ch.sent /\ ~ch.acked /\ ~Chooses(ch, o, inBlock)
      <4>1. Frame("snapshot", 0, ch.token, ch.snapshot) \in Frames
        BY DEF Frames, Frame, FrameTypes, Channels
      <4>2. Posted(Frame("snapshot", 0, chan.token, chan.snapshot)) /\ nextTok' = nextTok
        BY <3>3, <3>5, <3>7, <4>1, SendPosts
      <4>3. Resends
        BY <2>2, <2>6, <3>5, <3>7, <4>2 DEF Resends, SameChoice, Same
      <4> QED BY <2>3, <4>3 DEF Steers
    <3>8. CASE /\ fs = <<Frame("snapshot", 0, nextTok, o.data)>>
               /\ new.set /\ new.token = nextTok /\ new.snapshot = o.data /\ new.sent /\ ~new.acked
               /\ ~ch.set /\ Chooses(ch, o, inBlock) /\ hasSerializableCrossChainSnapshot(o)
      <4>1. o.data = blockNo
        BY <3>2, <3>8
      <4>2. Frame("snapshot", 0, nextTok, blockNo) \in Frames
        BY DEF Frames, Frame, FrameTypes
      <4>3. Posted(Frame("snapshot", 0, nextTok, blockNo)) /\ nextTok' = nextTok + 1
        BY <3>3, <3>5, <3>8, <4>1, <4>2, SendPosts
      <4>4. Picks
        BY <2>2, <2>6, <3>5, <3>8, <4>1, <4>3 DEF Picks
      <4> QED BY <2>3, <4>4 DEF Steers
    <3> QED BY <3>4, <3>6, <3>7, <3>8 DEF HoldsBack
  <2>7. CASE /\ k < Len(q) /\ ~hold(ch, opts'[q[k + 1]], inBlock)
             /\ pending' = {q[k + 1]} /\ chan' = ch /\ nextTok' = nextTok
             /\ SendFrames(<<ExecuteFrame(ch, q[k + 1], opts'[q[k + 1]])>>)
    <3> DEFINE id == q[k + 1]
               f == ExecuteFrame(ch, id, opts'[id])
    <3>1. /\ id \in Requests /\ id \in Nat /\ opts'[id].data \in Nat /\ ch.token \in Nat
          /\ hasSerializableCrossChainSnapshot(opts'[id]) => opts'[id].data = blockNo
          /\ \A w \in Workers : id \notin Held(w)
      BY <2>4, <2>7 DEF Channels
    <3>2. f = ExecuteFrame(chan, id, opts'[id])
      BY DEF ExecuteFrame, Referenced
    <3>3. ch.set => ch.acked
      BY <2>7 DEF hold
    <3>4. SendFrames(<<f>>) /\ pending' = {id} /\ chan' = ch /\ nextTok' = nextTok
      BY <2>7
    <3>5. f \in Frames
      <4> HIDE DEF id
      <4> QED BY <3>1 DEF ExecuteFrame, Frame, Frames, FrameTypes, NoToken
    <3> HIDE DEF id, f
    <3>6. Posted(f)
      BY <3>4, <3>5, SendPosts
    <3>7. Gives
      BY <3>1, <3>2, <3>3, <3>4, <3>6 DEF Gives, SameChoice, AckKept
    <3> QED BY <2>3, <3>7 DEF Steers
  <2> QED BY <2>1, <2>5, <2>6, <2>7
<1> QED BY <1>1, <1>2

\* A fork or the latch forgets what the last worker was sent.
LEMMA SpawnSteers ==
    ASSUME NEW STATE f, NEW STATE q, NEW STATE oc, NEW STATE ch, chan \in Channels,
           ch \in {chan, clearTimer(chan)}, nextTok' = nextTok, pending' = {},
           Forked(f, ch, q, oc) \/ Latched(ch, q, oc)
    PROVE  /\ Respawns
           /\ \A i \in Requests : outcome'[i] = oc[i] \/ outcome'[i] = "hostfault"
<1>1. ch \in Channels /\ ch.set = chan.set /\ ch.token = chan.token /\ ch.snapshot = chan.snapshot
  BY DEF clearTimer, Channels
<1>2. chan' = workerSpawned(ch)
  BY DEF Forked, Latched
<1>3. SameChoice /\ ~chan'.sent /\ ~chan'.acked
  BY <1>1, <1>2 DEF workerSpawned, SameChoice, Channels
<1>4. /\ Forks \/ Latches
      /\ \A i \in Requests : outcome'[i] = oc[i] \/ outcome'[i] = "hostfault"
  BY <1>1, SpawnShape
<1> QED BY <1>3, <1>4 DEF Respawns

\* A call that is queued, or new, is held by no worker.
LEMMA Unheld ==
    ASSUME TypeOK, OrderInv, NEW i \in Entries(queue) \cup {nextId}, NEW w \in Workers
    PROVE  i \notin Held(w)
<1> SUFFICES ASSUME i \in Held(w) PROVE FALSE
  OBVIOUS
<1>1. i \in Requests /\ i < nextId /\ \A q \in Entries(queue) : i < q
  BY DEF OrderInv, Behind
<1>2. i \in Nat /\ nextId \in Nat
  BY <1>1, ExecutorAssumption DEF Requests, TypeOK
<1> QED BY <1>1, <1>2

\* A new call carries the snapshot of the block that is open.
LEMMA NewCallOpts ==
    ASSUME TypeOK, NEW kind, NewCall(kind)
    PROVE  /\ nextId \in Requests
           /\ \A i \in Requests : i # nextId => opts'[i] = opts[i]
           /\ hasSerializableCrossChainSnapshot(opts'[nextId]) => opts'[nextId].data = blockNo
<1>1. nextId \in Requests /\ opts \in [Requests -> [kind : AllOptKinds, data : Nat]]
  BY DEF TypeOK, NewCall, Requests
<1>2. opts' = [opts EXCEPT ![nextId] =
                  [kind |-> kind, data |-> IF hasSerializableCrossChainSnapshot([kind |-> kind])
                                           THEN blockNo ELSE 0]]
  BY DEF NewCall
<1>3. opts'[nextId] = [kind |-> kind, data |-> IF hasSerializableCrossChainSnapshot([kind |-> kind])
                                               THEN blockNo ELSE 0]
  BY <1>1, <1>2
<1> QED BY <1>1, <1>2, <1>3 DEF hasSerializableCrossChainSnapshot

\* What a step of the executor does to the snapshots.
Steered == Steers /\ Dated /\ Kept /\ (blockNo' = blockNo \/ ~chan'.set)

\* Every step of the executor is of one of the kinds.
LEMMA ExecutorSteers ==
    ASSUME CallerAwaits, ExecutorInv, ExecutorInv', Wires, OrderInv, BlockInv, Executor
    PROVE  Steered
<1>1. /\ TypeOK /\ Tracked(queue, pending, outcome) /\ Typed(queue, pending, outcome)
      /\ OtherTypes /\ chan \in Channels /\ nextTok \in Nat /\ blockNo \in Nat
      /\ child \in Workers \cup {NoChild} /\ nextId \in Nat
      /\ opts' \in [Requests -> [kind : AllOptKinds, data : Nat]]
  BY TypeSplit DEF ExecutorInv, WaitingIsTracked, TypeOK
<1>2. \A i \in Entries(queue) \cup {nextId} : \A w \in Workers : i \notin Held(w)
  BY <1>1, Unheld
<1>3. \A i \in Entries(queue) \cup pending : outcome[i] = "waiting"
  BY <1>1 DEF Tracked, Typed, Entries
<1>4. ASSUME opts' = opts, blockNo' = blockNo,
             \A i \in Requests : outcome'[i] = "waiting" => outcome[i] = "waiting"
      PROVE  Dated /\ Kept
  BY <1>4 DEF Dated, Kept, BlockInv
<1>5. ASSUME NEW kind, NewCall(kind), blockNo' = blockNo,
             \A i \in Requests : outcome'[i] = "waiting" => i = nextId \/ outcome[i] = "waiting"
      PROVE  Dated /\ Kept
  <2>1. /\ \A i \in Requests : i # nextId => opts'[i] = opts[i]
        /\ hasSerializableCrossChainSnapshot(opts'[nextId]) => opts'[nextId].data = blockNo
    BY <1>1, <1>5, NewCallOpts
  <2>2. Kept
    BY <1>1, <2>1, ExecutorAssumption DEF Kept, Requests
  <2>3. Dated
    <3> SUFFICES ASSUME NEW i \in Requests, outcome'[i] = "waiting",
                        hasSerializableCrossChainSnapshot(opts'[i])
                 PROVE  opts'[i].data = blockNo
      BY <1>5 DEF Dated
    <3>1. CASE i = nextId
      BY <2>1, <3>1
    <3>2. CASE i # nextId
      BY <1>5, <2>1, <3>2 DEF BlockInv
    <3> QED BY <3>1, <3>2
  <2> QED BY <2>2, <2>3
<1>6. ASSUME SameWorker, SameChoice, chan'.sent = chan.sent, chan'.acked = chan.acked,
             inbox' = inbox, pending' \subseteq pending
      PROVE  Steers
  BY <1>6 DEF Steers, Keeps, SameWorker, AckKept
<1>7. CASE \E kind \in OptKinds : executeRejected(kind)
  <2>1. PICK kind \in OptKinds : executeRejected(kind)
    BY <1>7
  <2>2. /\ NewCall(kind) /\ outcome' = [outcome EXCEPT ![nextId] = "hostfault"]
        /\ UNCHANGED <<pending, chan, nextTok, inbox, wstate, child, gen, blockNo>>
    BY <2>1 DEF executeRejected, slotVars, blockVars, chanVars, ipcVars
  <2>3. \A i \in Requests : outcome'[i] = "waiting" => outcome[i] = "waiting"
    BY <1>1, <2>2 DEF Typed
  <2> QED BY <1>5, <1>6, <2>2, <2>3 DEF Steered, SameWorker, SameChoice
<1>8. CASE \E kind \in OptKinds : executeProbe(kind)
  <2>1. PICK kind \in OptKinds : executeProbe(kind)
    BY <1>8
  <2>2. /\ NewCall(kind) /\ broken /\ UNCHANGED <<pending, blockNo, nextTok>>
        /\ \/ Forked(failures, chan, Append(queue, nextId), [outcome EXCEPT ![nextId] = "waiting"])
           \/ Latched(chan, queue, [outcome EXCEPT ![nextId] = "hostfault"])
    BY <2>1 DEF executeProbe, blockVars
  <2>3. pending' = {}
    BY <1>1, <2>2 DEF ExecutorInv, WaitingIsTracked, Quiet, Tracked, Typed
  <2>4. PICK v \in {"waiting", "hostfault"} : \E q \in {Append(queue, nextId), queue} :
           \/ Forked(failures, chan, q, [outcome EXCEPT ![nextId] = v])
           \/ Latched(chan, q, [outcome EXCEPT ![nextId] = v])
    BY <2>2
  <2> DEFINE oc == [outcome EXCEPT ![nextId] = v]
  <2>5. \A i \in Requests : oc[i] = "waiting" => i = nextId \/ outcome[i] = "waiting"
    BY <1>1 DEF Typed
  <2> HIDE DEF oc
  <2>6. PICK q : Forked(failures, chan, q, oc) \/ Latched(chan, q, oc)
    BY <2>4 DEF oc
  <2>7. /\ Respawns
        /\ \A i \in Requests : outcome'[i] = oc[i] \/ outcome'[i] = "hostfault"
    BY <1>1, <2>2, <2>3, <2>6, SpawnSteers
  <2>8. Dated /\ Kept
    BY <1>5, <2>2, <2>5, <2>7
  <2> QED BY <2>2, <2>7, <2>8 DEF Steered, Steers
<1>9. CASE \E kind \in OptKinds : executeQueued(kind)
  <2>1. PICK kind \in OptKinds : executeQueued(kind)
    BY <1>9
  <2> DEFINE q == Append(queue, nextId)
             oc == [outcome EXCEPT ![nextId] = "waiting"]
  <2>2. /\ NewCall(kind) /\ flush(q, pending, chan, oc, sawReady) /\ blockNo' = blockNo
        /\ SameWorker
    BY <2>1 DEF executeQueued, slotVars, blockVars, SameWorker
  <2>3. /\ nextId \in Requests
        /\ \A i \in Requests : i # nextId => opts'[i] = opts[i]
        /\ hasSerializableCrossChainSnapshot(opts'[nextId]) => opts'[nextId].data = blockNo
    BY <1>1, <2>2, NewCallOpts
  <2>4. Entries(q) = Entries(queue) \cup {nextId}
    <3>1. queue \in Seq(Requests)
      BY <1>1 DEF Typed
    <3> QED BY <2>3, <3>1, PutLast
  <2>5. Typed(q, pending, oc) /\ Tracked(q, pending, oc)
    BY <1>1, <2>3, AppendTracked DEF ExecutorInv
  <2>6. \A i \in Requests : oc[i] = "waiting" => i = nextId \/ outcome[i] = "waiting"
    BY <1>1 DEF Typed
  <2>7. \A i \in Entries(q) : oc[i] = "waiting" /\ \A w \in Workers : i \notin Held(w)
    <3>1. \A i \in Entries(q) : oc[i] = "waiting"
      BY <1>1, <1>3, <2>3, <2>4 DEF Typed
    <3> QED BY <1>2, <2>4, <3>1
  <2>8. \A i \in Requests : oc[i] = "waiting" /\ hasSerializableCrossChainSnapshot(opts'[i])
                               => opts'[i].data = blockNo
    BY <2>3, <2>6 DEF BlockInv
  <2>9. chan.acked => chan.sent /\ (chan.acked \/ AckSeen)
    BY DEF BlockInv
  <2> HIDE DEF q, oc
  <2>10. Steers /\ \A i \in Requests : outcome'[i] = "waiting" => oc[i] = "waiting"
    BY <1>1, <2>2, <2>5, <2>7, <2>8, <2>9, FlushSteers
  <2>11. Dated /\ Kept
    BY <1>5, <2>2, <2>6, <2>10
  <2> QED BY <2>2, <2>10, <2>11 DEF Steered
<1>10. CASE beginBlock \/ endBlock
  <2>1. PICK type \in {"beginBlock", "endBlock"} : SendFrames(<<Frame(type, 0, 0, 0)>>)
    BY <1>10 DEF beginBlock, endBlock
  <2>2. Posted(Frame(type, 0, 0, 0))
    <3>1. Frame(type, 0, 0, 0) \in Frames
      BY DEF Frames, Frame, FrameTypes
    <3> QED BY <1>1, <2>1, <3>1, SendPosts
  <2>3. /\ chan' = NoSnapshot /\ nextTok' = nextTok /\ SameWorker /\ Quiet
        /\ UNCHANGED <<pending, outcome, opts>>
    BY <1>10 DEF beginBlock, endBlock, promiseVars, slotVars, SameWorker
  <2>4. pending' = {} /\ ~chan'.set
    BY <1>1, <1>3, <2>3 DEF Quiet, NoSnapshot, Typed
  <2>5. Turns
    BY <2>2, <2>3, <2>4 DEF Turns
  <2>6. Dated /\ Kept
    BY <2>3 DEF Dated, Kept, Quiet
  <2> QED BY <2>4, <2>5, <2>6 DEF Steered, Steers
<1>11. CASE shutdown
  <2>1. /\ outcome' = Settle(outcome, pending \cup Entries(queue), "hostfault")
        /\ chan' = clearTimer(chan) /\ pending' = {} /\ child' = NoChild
        /\ UNCHANGED <<opts, gen, inbox, wstate, nextTok, blockNo>>
    BY <1>11 DEF shutdown, blockVars
  <2>2. SameChoice /\ chan'.sent = chan.sent /\ chan'.acked = chan.acked
    BY <1>1, <2>1 DEF clearTimer, Channels, SameChoice
  <2>3. Keeps
    BY <2>1, <2>2 DEF Keeps, AckKept
  <2>4. \A i \in Requests : outcome'[i] = "waiting" => outcome[i] = "waiting"
    BY <2>1 DEF Settle
  <2> QED BY <1>4, <2>1, <2>3, <2>4 DEF Steered, Steers
\* Frames of the workers.
<1>12. ASSUME NEW w \in Workers, Listen(w)
       PROVE  Steered
  <2>1. Incoming(w)
    BY <1>12 DEF Listen, onStaleFrame, onSnapshotAck, onReady, onReadyAgain, onUnknownReply,
       onBadReply, onReply, From
  <2>2. Head(outbox[w]) \in Entries(outbox[w]) /\ Head(outbox[w]) \in Replies
    BY <2>1, IncomingShape
  <2>3. \A i \in Entries(queue) : outcome[i] = "waiting" /\ \A v \in Workers : i \notin Held(v)
    BY <1>2, <1>3
  <2>4. CASE onStaleFrame(w) \/ onReadyAgain(w) \/ onUnknownReply(w)
    <3>1. /\ UNCHANGED <<outcome, opts, blockNo, pending, chan, nextTok, child, gen, wstate, inbox>>
      BY <2>4 DEF onStaleFrame, onReadyAgain, onUnknownReply, executorVars, promiseVars,
         slotVars, chanVars, blockVars
    <3> QED BY <1>4, <1>6, <3>1 DEF Steered, SameWorker, SameChoice
  <2>5. CASE onSnapshotAck(w)
    <3> DEFINE r == Head(outbox[w])
               ch == onAck(chan, r.tok)
    <3>1. /\ flush(queue, pending, ch, outcome, sawReady) /\ opts' = opts
          /\ blockNo' = blockNo /\ SameWorker /\ w = child /\ r.type = "snapshotAck"
      BY <2>5 DEF onSnapshotAck, From, slotVars, blockVars, SameWorker
    <3>2. /\ ch \in Channels /\ ch.set = chan.set /\ ch.token = chan.token
          /\ ch.snapshot = chan.snapshot /\ ch.sent = chan.sent
          /\ ch.acked => chan.acked \/ (chan.sent /\ r.tok = chan.token)
          /\ chan.acked => ch.acked
      BY <1>1 DEF onAck, Channels
    <3>3. ch.acked => ch.sent /\ (chan.acked \/ AckSeen)
      BY <2>2, <3>1, <3>2 DEF AckSeen, BlockInv
    <3> HIDE DEF ch
    <3>4. \A i \in Requests : outcome[i] = "waiting" /\ hasSerializableCrossChainSnapshot(opts'[i])
                                 => opts'[i].data = blockNo
      BY <3>1 DEF BlockInv
    <3>5. Steers /\ \A i \in Requests : outcome'[i] = "waiting" => outcome[i] = "waiting"
      BY <1>1, <2>3, <3>1, <3>2, <3>3, <3>4, FlushSteers
    <3> QED BY <1>4, <3>1, <3>5 DEF Steered
  <2>6. CASE onReady(w)
    <3>1. /\ flush(queue, pending, chan, outcome, TRUE) /\ opts' = opts
          /\ blockNo' = blockNo /\ SameWorker
      BY <2>6 DEF onReady, blockVars, SameWorker
    <3>2. \A i \in Requests : outcome[i] = "waiting" /\ hasSerializableCrossChainSnapshot(opts'[i])
                                 => opts'[i].data = blockNo
      BY <3>1 DEF BlockInv
    <3>3. chan.acked => chan.sent /\ (chan.acked \/ AckSeen)
      BY DEF BlockInv
    <3>4. Steers /\ \A i \in Requests : outcome'[i] = "waiting" => outcome[i] = "waiting"
      BY <1>1, <2>3, <3>1, <3>2, <3>3, FlushSteers
    <3> QED BY <1>4, <3>1, <3>4 DEF Steered
  <2>7. CASE onBadReply(w)
    <3>1. /\ pending' \subseteq pending /\ \E i : outcome' = Settle(outcome, {i}, "hostfault")
          /\ UNCHANGED <<opts, chan, nextTok, blockNo, child, gen, inbox, wstate>>
      BY <2>7 DEF onBadReply, blockVars, chanVars
    <3>2. \A i \in Requests : outcome'[i] = "waiting" => outcome[i] = "waiting"
      BY <3>1 DEF Settle
    <3> QED BY <1>4, <1>6, <3>1, <3>2 DEF Steered, SameWorker, SameChoice
  <2>8. CASE onReply(w)
    <3> DEFINE r == Head(outbox[w])
               oc == Settle(outcome, {r.id}, r.type)
    <3>1. /\ r.id \in pending /\ r.type \in {"result", "hostfault"}
          /\ flush(queue, pending \ {r.id}, chan, oc, sawReady) /\ opts' = opts
          /\ blockNo' = blockNo /\ SameWorker
      BY <2>8 DEF onReply, From, slotVars, blockVars, SameWorker
    <3>2. \A i \in Requests : oc[i] = IF i = r.id THEN r.type ELSE outcome[i]
      BY DEF Settle
    <3>3. Typed(queue, pending \ {r.id}, oc)
      <4>1. r.type \in Settled /\ {r.id} \in SUBSET pending
        BY <3>1 DEF Settled
      <4> HIDE DEF r
      <4> QED BY <1>1, <4>1, SettleTracked
    <3>4. \A i \in Entries(queue) : i \in Requests /\ i # r.id
      BY <1>1, <3>1 DEF Typed, Tracked, Entries
    <3> HIDE DEF oc, r
    <3>5. \A i \in Requests : oc[i] = "waiting" => outcome[i] = "waiting"
      BY <3>1, <3>2
    <3>6. \A i \in Entries(queue) : oc[i] = "waiting" /\ \A v \in Workers : i \notin Held(v)
      BY <2>3, <3>2, <3>4
    <3>7. \A i \in Requests : oc[i] = "waiting" /\ hasSerializableCrossChainSnapshot(opts'[i])
                                 => opts'[i].data = blockNo
      BY <3>1, <3>5 DEF BlockInv
    <3>8. chan.acked => chan.sent /\ (chan.acked \/ AckSeen)
      BY DEF BlockInv
    <3>9. Steers /\ \A i \in Requests : outcome'[i] = "waiting" => oc[i] = "waiting"
      BY <1>1, <3>1, <3>3, <3>6, <3>7, <3>8, FlushSteers
    <3> QED BY <1>4, <3>1, <3>5, <3>9 DEF Steered
  <2> QED BY <1>12, <2>4, <2>5, <2>6, <2>7, <2>8 DEF Listen
\* The exit of the worker.
<1>13. ASSUME NEW how, onExit(how)
       PROVE  Steered
  <2> DEFINE verdict == IF how = "self" THEN "terminated" ELSE "hostfault"
             oc == Settle(outcome, pending, verdict)
  <2>1. /\ pending' = {} /\ UNCHANGED <<opts, blockNo, nextTok>>
        /\ \E f : afterWorkerLost(f, clearTimer(chan), queue, oc)
    BY <1>13 DEF onExit, blockVars
  <2>2. \A i \in Requests : oc[i] = "waiting" => outcome[i] = "waiting"
    BY DEF Settle
  <2> HIDE DEF oc, verdict
  <2>3. PICK f : Forked(f, clearTimer(chan), queue, oc) \/ Latched(clearTimer(chan), queue, oc)
    BY <2>1 DEF afterWorkerLost
  <2>4. /\ Respawns
        /\ \A i \in Requests : outcome'[i] = oc[i] \/ outcome'[i] = "hostfault"
    <3> DEFINE ch == clearTimer(chan)
    <3>1. ch \in {chan, clearTimer(chan)}
      OBVIOUS
    <3> HIDE DEF ch
    <3>2. Forked(f, ch, queue, oc) \/ Latched(ch, queue, oc)
      BY <2>3 DEF ch
    <3> QED BY <1>1, <2>1, <3>1, <3>2, SpawnSteers
  <2> QED BY <1>4, <2>1, <2>2, <2>4 DEF Steered, Steers
<1>14. CASE onChildExit \/ onReadyTimeout
  BY <1>13, <1>14 DEF onChildExit, onReadyTimeout
<1>15. CASE onDisconnect \/ BackoffElapses
  <2>1. UNCHANGED <<outcome, opts, blockNo, pending, chan, nextTok, child, gen, wstate, inbox>>
    BY <1>15 DEF onDisconnect, BackoffElapses, promiseVars, slotVars, chanVars, blockVars, ipcVars
  <2> QED BY <1>4, <1>6, <2>1 DEF Steered, SameWorker, SameChoice
<1>16. CASE onAckTimeout
  <2>1. /\ UNCHANGED <<outcome, opts, blockNo, pending, nextTok, child, gen, inbox, wstate>>
        /\ chan' = clearTimer(chan)
    BY <1>16 DEF onAckTimeout, promiseVars, blockVars
  <2>2. SameChoice /\ chan'.sent = chan.sent /\ chan'.acked = chan.acked
    BY <1>1, <2>1 DEF clearTimer, Channels, SameChoice
  <2> QED BY <1>4, <1>6, <2>1, <2>2 DEF Steered, SameWorker
<1>17. ASSUME NEW id \in Requests, onWatchdog(id)
       PROVE  Steered
  <2>1. /\ pending' \subseteq pending /\ outcome' = Settle(outcome, {id}, "watchdog")
        /\ UNCHANGED <<opts, chan, nextTok, blockNo, child, gen, inbox, wstate>>
    BY <1>17 DEF onWatchdog, blockVars, chanVars
  <2>2. \A i \in Requests : outcome'[i] = "waiting" => outcome[i] = "waiting"
    BY <2>1 DEF Settle
  <2> QED BY <1>4, <1>6, <2>1, <2>2 DEF Steered, SameWorker, SameChoice
<1> QED
  BY <1>7, <1>8, <1>9, <1>10, <1>11, <1>12, <1>14, <1>15, <1>16, <1>17, Zenon
     DEF Executor, Caller, Timers

(***************************************************************************)
(* What a step of a worker does to the snapshots.                          *)
(***************************************************************************)
Took(w) == inbox[w] # <<>> /\ inbox' = [inbox EXCEPT ![w] = Tail(@)]

\* A snapshot frame is put in place and acknowledged.
Takes(w) ==
    /\ Took(w) /\ Head(inbox[w]).type = "snapshot"
    /\ wsnap'[w].token = Head(inbox[w]).ref /\ wsnap'[w].val = Head(inbox[w]).val
    /\ Entries(outbox'[w]) = Entries(outbox[w]) \cup {Reply("snapshotAck", 0, Head(inbox[w]).ref)}

\* An endBlock frame drops the snapshot, and so does the worker's death.
Drops(w) ==
    /\ \/ Took(w) /\ Head(inbox[w]).type = "endBlock"
       \/ inbox' = [inbox EXCEPT ![w] = <<>>] /\ ~Alive(w)'
    /\ wsnap'[w].token = NoToken /\ outbox' = outbox

\* Everything else leaves the snapshot and its acknowledgement alone.
Passes(w) ==
    /\ inbox' = inbox \/ (Took(w) /\ Head(inbox[w]).type \notin {"snapshot", "endBlock"})
    /\ wsnap' = wsnap
    /\ \A r \in Entries(outbox'[w]) : r \in Entries(outbox[w]) \/ r.type # "snapshotAck"

Alike(x, j) == x.id = j.id /\ x.ref = j.ref /\ x.val = j.val
Loads(w) == Entries(jobs[w]) \cup ExecFrames(inbox[w])

\* What the contract that starts, if any, sees.
Sees(w) ==
    \/ ran' = ran
    \/ \E j \in Entries(jobs[w]) :
          Resolves(w, j) /\ ran' = Append(ran, [id |-> j.id, data |-> Resolved(w, j), w |-> w])

Heeds(w) ==
    /\ Takes(w) \/ Drops(w) \/ Passes(w)
    /\ \A j \in Entries(jobs'[w]) : \E x \in Loads(w) : Alike(x, j)
    /\ Sees(w) /\ Alive(w)
    /\ \A v \in Workers \ {w} : /\ inbox'[v] = inbox[v] /\ outbox'[v] = outbox[v]
                                /\ jobs'[v] = jobs[v] /\ wsnap'[v] = wsnap[v]
                                /\ wstate'[v] = wstate[v]

\* Every step of a worker is one of the three.
LEMMA WorkerHeeds ==
    ASSUME TypeOK, Wires, NEW w \in Workers, Orderly(w), Worker(w)
    PROVE  Heeds(w)
<1>1. /\ inbox \in [Workers -> Seq(Frames)] /\ outbox \in [Workers -> Seq(Replies)]
      /\ jobs \in [Workers -> Seq(Jobs)] /\ wsnap \in [Workers -> [token : Nat, val : Nat]]
      /\ wstate \in [Workers -> WorkerStates]
      /\ inbox[w] \in Seq(Frames) /\ jobs[w] \in Seq(Jobs) /\ outbox[w] \in Seq(Replies)
  BY DEF Wires, TypeOK
<1>2. ASSUME jobs' = jobs
      PROVE  \A j \in Entries(jobs'[w]) : \E x \in Loads(w) : Alike(x, j)
  BY <1>2 DEF Loads, Alike
<1>3. ASSUME NEW r, outbox' = [outbox EXCEPT ![w] = Append(@, r)], r \in Replies
      PROVE  Entries(outbox'[w]) = Entries(outbox[w]) \cup {r}
  <2>1. outbox'[w] = Append(outbox[w], r)
    BY <1>1, <1>3
  <2>2. Entries(Append(outbox[w], r)) = Entries(outbox[w]) \cup {r}
    BY <1>1, <1>3, PutLast
  <2> QED BY <2>1, <2>2
<1>4. /\ "ready" \in ReplyTypes /\ "snapshotAck" \in ReplyTypes /\ "result" \in ReplyTypes
      /\ "hostfault" \in ReplyTypes /\ 0 \in Nat /\ NoToken \in Nat
  BY DEF ReplyTypes, NoToken
<1>5. ASSUME NEW r, outbox' = [outbox EXCEPT ![w] = Append(@, r)], r \in Replies,
             r.type # "snapshotAck"
      PROVE  \A x \in Entries(outbox'[w]) : x \in Entries(outbox[w]) \/ x.type # "snapshotAck"
  BY <1>3, <1>5
<1>6. jobs[w] # <<>> => /\ Head(jobs[w]) \in Entries(jobs[w]) /\ Head(jobs[w]) \in Jobs
                        /\ Tail(jobs[w]) = <<>> /\ Entries(Tail(jobs[w])) = {}
  <2> SUFFICES ASSUME jobs[w] # <<>>
               PROVE  /\ Head(jobs[w]) \in Entries(jobs[w]) /\ Head(jobs[w]) \in Jobs
                      /\ Tail(jobs[w]) = <<>> /\ Entries(Tail(jobs[w])) = {}
    OBVIOUS
  <2>1. Len(jobs[w]) <= 1
    BY DEF Orderly
  <2> QED BY <1>1, <2>1, OneJob
\* The frames.
<1>7. CASE handleInitMessage(w)
  <2>1. /\ Took(w) /\ Head(inbox[w]).type = "init" /\ UNCHANGED <<jobs, wsnap, ran>> /\ Alive(w)
        /\ wstate' = [wstate EXCEPT ![w] = "up"]
        /\ outbox' = [outbox EXCEPT ![w] = Append(@, Reply("ready", 0, NoToken))]
    BY <1>7 DEF handleInitMessage, Got, Took, Alive, Send
  <2>2. Reply("ready", 0, NoToken) \in Replies /\ Reply("ready", 0, NoToken).type # "snapshotAck"
    BY <1>4, ReplyType
  <2>3. \A v \in Workers \ {w} : inbox'[v] = inbox[v] /\ outbox'[v] = outbox[v] /\ wstate'[v] = wstate[v]
    BY <1>1, <2>1 DEF Took
  <2>4. Passes(w)
    BY <1>5, <2>1, <2>2 DEF Passes
  <2> QED BY <1>2, <2>1, <2>3, <2>4 DEF Heeds, Sees
<1>8. CASE onSnapshotFrame(w)
  <2> DEFINE f == Head(inbox[w])
  <2>1. /\ Took(w) /\ f.type = "snapshot" /\ UNCHANGED <<jobs, wstate, ran>> /\ Alive(w)
        /\ wsnap' = [wsnap EXCEPT ![w] = [token |-> f.ref, val |-> f.val]]
        /\ outbox' = [outbox EXCEPT ![w] = Append(@, Reply("snapshotAck", 0, f.ref))]
    BY <1>8 DEF onSnapshotFrame, Got, Took, Alive, Send
  <2>2. f \in Frames
    BY <1>1, <2>1, TakeFirst DEF Took
  <2>3. Reply("snapshotAck", 0, f.ref) \in Replies
    BY <1>4, <2>2, ReplyType DEF Frames
  <2>4. \A v \in Workers \ {w} : inbox'[v] = inbox[v] /\ outbox'[v] = outbox[v] /\ wsnap'[v] = wsnap[v]
    BY <1>1, <2>1 DEF Took
  <2> HIDE DEF f
  <2>5. wsnap'[w].token = f.ref /\ wsnap'[w].val = f.val
    BY <1>1, <2>1
  <2>6. Entries(outbox'[w]) = Entries(outbox[w]) \cup {Reply("snapshotAck", 0, f.ref)}
    BY <1>3, <2>1, <2>3
  <2>7. Takes(w)
    BY <2>1, <2>5, <2>6 DEF Takes, f
  <2> QED BY <1>2, <2>1, <2>4, <2>7 DEF Heeds, Sees
<1>9. CASE handleBeginBlockMessage(w)
  <2>1. /\ Took(w) /\ Head(inbox[w]).type = "beginBlock" /\ Alive(w)
        /\ UNCHANGED <<outbox, jobs, wsnap, wstate, ran>>
    BY <1>9 DEF handleBeginBlockMessage, Got, Took, Alive
  <2>2. \A v \in Workers \ {w} : inbox'[v] = inbox[v]
    BY <1>1, <2>1 DEF Took
  <2>3. Passes(w)
    BY <2>1 DEF Passes
  <2> QED BY <1>2, <2>1, <2>2, <2>3 DEF Heeds, Sees
<1>10. CASE handleEndBlockMessage(w)
  <2>1. /\ Took(w) /\ Head(inbox[w]).type = "endBlock" /\ Alive(w)
        /\ wsnap' = [wsnap EXCEPT ![w] = NoWorkerSnapshot]
        /\ UNCHANGED <<outbox, jobs, wstate, ran>>
    BY <1>10 DEF handleEndBlockMessage, Got, Took, Alive
  <2>2. \A v \in Workers \ {w} : inbox'[v] = inbox[v] /\ wsnap'[v] = wsnap[v]
    BY <1>1, <2>1 DEF Took
  <2>3. Drops(w)
    BY <1>1, <2>1 DEF Drops, NoWorkerSnapshot
  <2> QED BY <1>2, <2>1, <2>2, <2>3 DEF Heeds, Sees
<1>11. CASE handleExecuteMessage(w)
  <2> DEFINE f == Head(inbox[w])
             j == Job(f, "chained")
  <2>1. /\ Took(w) /\ f.type = "execute" /\ Alive(w)
        /\ jobs' = [jobs EXCEPT ![w] = Append(@, j)]
        /\ UNCHANGED <<outbox, wsnap, wstate, ran>>
    BY <1>11 DEF handleExecuteMessage, Got, Took, Alive
  <2>2. f \in Frames /\ f \in Entries(inbox[w])
    BY <1>1, <2>1, TakeFirst DEF Took
  <2>3. f \in Loads(w) /\ j \in Jobs /\ Alike(f, j)
    BY <2>1, <2>2 DEF Loads, ExecFrames, Job, Jobs, Frames, Alike
  <2> HIDE DEF f, j
  <2>4. jobs'[w] = Append(jobs[w], j) /\ Entries(Append(jobs[w], j)) = Entries(jobs[w]) \cup {j}
    BY <1>1, <2>1, <2>3, PutLast
  <2>5. \A k \in Entries(jobs'[w]) : \E x \in Loads(w) : Alike(x, k)
    BY <2>3, <2>4 DEF Loads, Alike
  <2>6. \A v \in Workers \ {w} : inbox'[v] = inbox[v] /\ jobs'[v] = jobs[v]
    BY <1>1, <2>1 DEF Took
  <2>7. Passes(w)
    BY <2>1 DEF Passes, f
  <2> QED BY <2>1, <2>5, <2>6, <2>7 DEF Heeds, Sees
\* The chained execution.
<1>12. CASE StartContract(w)
  <2> DEFINE j == Head(jobs[w])
             r == [j EXCEPT !.phase = "running"]
  <2>1. /\ jobs[w] # <<>> /\ Alive(w) /\ Resolves(w, j)
        /\ ran' = Append(ran, [id |-> j.id, data |-> Resolved(w, j), w |-> w])
        /\ jobs' = [jobs EXCEPT ![w] = <<r>> \o Tail(@)]
        /\ UNCHANGED <<inbox, outbox, wsnap, wstate>>
    BY <1>12 DEF StartContract, AtHead, Alive
  <2>2. j \in Entries(jobs[w]) /\ j \in Jobs /\ Tail(jobs[w]) = <<>>
    BY <1>6, <2>1
  <2>3. Alike(j, r)
    BY <2>2 DEF Jobs, Alike
  <2> HIDE DEF j, r
  <2>4. <<r>> \o <<>> = <<r>> /\ Entries(<<r>>) = {r}
    <3>1. <<r>> \in Seq({r}) /\ Len(<<r>>) = 1
      OBVIOUS
    <3> QED BY <3>1, ConcatEmptySeq DEF Entries
  <2>5. jobs'[w] = <<r>>
    BY <1>1, <2>1, <2>2, <2>4
  <2>6. \A k \in Entries(jobs'[w]) : \E x \in Loads(w) : Alike(x, k)
    BY <2>2, <2>3, <2>4, <2>5 DEF Loads
  <2>7. \A v \in Workers \ {w} : jobs'[v] = jobs[v]
    BY <1>1, <2>1
  <2>8. Passes(w)
    BY <2>1 DEF Passes
  <2>9. Sees(w)
    BY <2>1, <2>2 DEF Sees
  <2> QED BY <2>1, <2>6, <2>7, <2>8, <2>9 DEF Heeds
<1>13. ASSUME NEW type \in {"result", "hostfault"}, jobs[w] # <<>>, Alive(w),
              outbox' = [outbox EXCEPT ![w] = Append(@, Reply(type, Head(jobs[w]).id,
                                                        newDispatchToken(Head(jobs[w]).id)))],
              jobs' = [jobs EXCEPT ![w] = Tail(@)],
              UNCHANGED <<inbox, wsnap, wstate, ran>>
       PROVE  Heeds(w)
  <2>1. Head(jobs[w]).id \in Nat /\ newDispatchToken(Head(jobs[w]).id) \in Nat
    BY <1>6, <1>13 DEF Jobs, newDispatchToken
  <2> DEFINE r == Reply(type, Head(jobs[w]).id, newDispatchToken(Head(jobs[w]).id))
  <2>2. r \in Replies /\ r.type # "snapshotAck"
    BY <1>4, <2>1, ReplyType
  <2> HIDE DEF r
  <2>3. \A x \in Entries(outbox'[w]) : x \in Entries(outbox[w]) \/ x.type # "snapshotAck"
    BY <1>5, <1>13, <2>2 DEF r
  <2>4. Entries(jobs'[w]) = {}
    BY <1>1, <1>6, <1>13
  <2>5. \A v \in Workers \ {w} : jobs'[v] = jobs[v] /\ outbox'[v] = outbox[v]
    BY <1>1, <1>13
  <2>6. Passes(w)
    BY <1>13, <2>3 DEF Passes
  <2> QED BY <1>13, <2>4, <2>5, <2>6 DEF Heeds, Sees
<1>14. CASE StaleReference(w) \/ EscapedThrow(w)
  BY <1>13, <1>14 DEF StaleReference, EscapedThrow, ReplyHostFault, AtHead, Alive, Send
<1>15. CASE FinishContract(w)
  BY <1>13, <1>15 DEF FinishContract, AtHead, Alive, Send
\* Deaths and odd frames.
<1>16. CASE (\E how \in Deaths : Crash(w, how)) \/ KillArrives(w)
  <2>1. PICK how \in Deaths : Alive(w) /\ Die(w, how)
    BY <1>16 DEF Crash, KillArrives, Deaths
  <2>2. /\ wstate' = [wstate EXCEPT ![w] = how] /\ inbox' = [inbox EXCEPT ![w] = <<>>]
        /\ jobs' = [jobs EXCEPT ![w] = <<>>] /\ wsnap' = [wsnap EXCEPT ![w] = NoWorkerSnapshot]
        /\ UNCHANGED <<outbox, ran>>
    BY <2>1 DEF Die
  <2>3. jobs'[w] = <<>> /\ wsnap'[w] = NoWorkerSnapshot /\ wstate'[w] = how
    BY <1>1, <2>2
  <2>4. ~Alive(w)' /\ Entries(jobs'[w]) = {}
    BY <2>3 DEF Alive, Deaths, Entries
  <2>5. \A v \in Workers \ {w} : /\ inbox'[v] = inbox[v] /\ jobs'[v] = jobs[v]
                                 /\ wsnap'[v] = wsnap[v] /\ wstate'[v] = wstate[v]
    BY <1>1, <2>2
  <2>6. Drops(w)
    BY <2>2, <2>3, <2>4 DEF Drops, NoWorkerSnapshot
  <2> QED BY <2>1, <2>2, <2>4, <2>5, <2>6 DEF Heeds, Sees
<1>17. CASE SendOddFrame(w, Requests)
  <2>1. PICK r \in OddFrames(Requests) : outbox' = [outbox EXCEPT ![w] = Append(@, r)]
    BY <1>17 DEF SendOddFrame, Send
  <2>2. UNCHANGED <<inbox, jobs, wsnap, wstate, ran>> /\ Alive(w)
    BY <1>17 DEF SendOddFrame, Alive
  <2>3. r \in Replies /\ r.type # "snapshotAck"
    <3>1. Requests \subseteq Nat /\ finished \subseteq Nat
      BY ExecutorAssumption DEF Requests, Wires
    <3>2. CASE r = Reply("ready", 0, NoToken)
      BY <1>4, <3>2, ReplyType
    <3>3. ASSUME NEW i \in Requests \cup finished, NEW tok \in {NoToken, newDispatchToken(i)},
                 r = Reply("result", i, tok)
          PROVE  r \in Replies /\ r.type # "snapshotAck"
      <4>1. i \in Nat /\ tok \in Nat
        BY <1>4, <3>1, <3>3 DEF newDispatchToken
      <4> QED BY <1>4, <3>3, <4>1, ReplyType
    <3>4. \/ r = Reply("ready", 0, NoToken)
          \/ \E i \in Requests \cup finished : \E tok \in {NoToken, newDispatchToken(i)} :
                r = Reply("result", i, tok)
      BY DEF OddFrames
    <3> QED BY <3>2, <3>3, <3>4
  <2>4. \A v \in Workers \ {w} : outbox'[v] = outbox[v]
    BY <1>1, <2>1
  <2>5. \A x \in Entries(outbox'[w]) : x \in Entries(outbox[w]) \/ x.type # "snapshotAck"
    BY <1>5, <2>1, <2>3
  <2>6. Passes(w)
    BY <2>2, <2>5 DEF Passes
  <2> QED BY <1>2, <2>2, <2>4, <2>6 DEF Heeds, Sees
<1> QED BY <1>7, <1>8, <1>9, <1>10, <1>11, <1>12, <1>14, <1>15, <1>16, <1>17, Zenon DEF Worker, Working

(***************************************************************************)
(* Tokens keep their values.                                               *)
(***************************************************************************)
\* A frame that is posted is the only new one.
LEMMA PostedArrives ==
    ASSUME Wires, child \in Workers \cup {NoChild}, NEW f \in Frames, Posted(f), NEW w \in Workers
    PROVE  Entries(inbox'[w]) \subseteq Entries(inbox[w]) \cup {f}
<1>1. CASE inbox' = inbox
  BY <1>1
<1>2. CASE child # NoChild /\ inbox' = [inbox EXCEPT ![child] = Append(@, f)]
  <2>1. inbox \in [Workers -> Seq(Frames)] /\ inbox[child] \in Seq(Frames)
    BY <1>2 DEF Wires
  <2>2. Entries(Append(inbox[child], f)) = Entries(inbox[child]) \cup {f}
    BY <2>1, PutLast
  <2>3. inbox'[w] = IF w = child THEN Append(inbox[child], f) ELSE inbox[w]
    BY <1>2, <2>1
  <2> QED BY <2>2, <2>3
<1> QED BY <1>1, <1>2 DEF Posted

\* Tokens in use.
LEMMA Below ==
    ASSUME NEW n \in Nat, NEW m \in Nat, n <= m
    PROVE  \A k \in Nat : k < n => k < m /\ k \in 0..n - 1
OBVIOUS

\* What was meant stays meant when a token is added and a call is issued.
LEMMA StillMeant ==
    ASSUME NEW V \in [Nat -> Nat], NEW U \in [Nat -> Nat], NEW n \in Nat, NEW m \in Nat, n <= m,
           \A k \in 0..n - 1 : U[k] = V[k], NEW o, NEW p
    PROVE  /\ \A x : p[x.id] = o[x.id] /\ x.ref \in Nat /\ Carries(V, n, o, x) => Carries(U, m, p, x)
           /\ \A f \in Frames : /\ f.type = "execute" => p[f.id] = o[f.id]
                                /\ Meant(V, n, o, f)
                                => Meant(U, m, p, f)
<1>1. ASSUME NEW x, p[x.id] = o[x.id], x.ref \in Nat, Carries(V, n, o, x)
      PROVE  Carries(U, m, p, x)
  <2>1. CASE x.ref = NoToken
    BY <1>1, <2>1 DEF Carries
  <2>2. CASE x.ref # NoToken
    <3>1. x.ref < n /\ V[x.ref] = o[x.id].data
      BY <1>1, <2>2 DEF Carries
    <3>2. x.ref \in 0..n - 1 /\ x.ref < m
      BY <1>1, <3>1
    <3> QED BY <1>1, <2>2, <3>1, <3>2 DEF Carries
  <2> QED BY <2>1, <2>2
<1>2. ASSUME NEW f \in Frames, f.type = "execute" => p[f.id] = o[f.id], Meant(V, n, o, f)
      PROVE  Meant(U, m, p, f)
  <2>1. f.ref \in Nat
    BY DEF Frames
  <2>2. CASE f.type = "snapshot"
    <3>1. f.ref \in 1..n - 1 /\ V[f.ref] = f.val
      BY <1>2, <2>2 DEF Meant
    <3>2. f.ref \in 0..n - 1 /\ f.ref \in 1..m - 1
      BY <3>1
    <3> QED BY <2>2, <3>1, <3>2 DEF Meant
  <2>3. CASE f.type = "execute"
    BY <1>1, <1>2, <2>1, <2>3 DEF Meant
  <2> QED BY <2>2, <2>3 DEF Meant
<1> QED BY <1>1, <1>2

\* A step of the executor: the new frames mean what they should.
LEMMA TokensCarry ==
    ASSUME Wires, TypeOK, TypeOK', OrderInv, Kept, UNCHANGED workerVars,
           NEW V \in [Nat -> Nat], TokenInv(V), NEW U \in [Nat -> Nat],
           nextTok <= nextTok', \A k \in 0..nextTok - 1 : U[k] = V[k],
           chan'.set => chan'.token \in 1..nextTok' - 1 /\ U[chan'.token] = chan'.snapshot,
           NEW F, \A f \in F : Meant(U, nextTok', opts', f),
           \A w \in Workers : Entries(inbox'[w]) \subseteq Entries(inbox[w]) \cup F,
           \A w \in Workers : Entries(outbox'[w]) \subseteq Entries(outbox[w])
    PROVE  TokenInv(U)'
<1>1. /\ nextTok \in Nat /\ nextTok' \in Nat /\ nextTok > 0
      /\ UNCHANGED <<jobs, wsnap, ran>>
      /\ inbox \in [Workers -> Seq(Frames)] /\ outbox \in [Workers -> Seq(Replies)]
      /\ jobs \in [Workers -> Seq(Jobs)] /\ wsnap \in [Workers -> [token : Nat, val : Nat]]
      /\ ran \in Seq(Starts)
  BY DEF TypeOK, workerVars, Wires, TokenInv
<1>2. \A k \in Nat : k < nextTok => k < nextTok' /\ k \in 0..nextTok - 1
  BY <1>1, Below
<1>3. /\ \A x : opts'[x.id] = opts[x.id] /\ x.ref \in Nat /\ Carries(V, nextTok, opts, x)
                  => Carries(U, nextTok', opts', x)
      /\ \A f \in Frames : /\ f.type = "execute" => opts'[f.id] = opts[f.id]
                           /\ Meant(V, nextTok, opts, f)
                           => Meant(U, nextTok', opts', f)
  <2> DEFINE o == opts
             p == opts'
             n == nextTok
             m == nextTok'
  <2>1. n \in Nat /\ m \in Nat /\ n <= m /\ \A k \in 0..n - 1 : U[k] = V[k]
    BY <1>1
  <2> HIDE DEF o, p, n, m
  <2>2. /\ \A x : p[x.id] = o[x.id] /\ x.ref \in Nat /\ Carries(V, n, o, x) => Carries(U, m, p, x)
        /\ \A f \in Frames : /\ f.type = "execute" => p[f.id] = o[f.id]
                             /\ Meant(V, n, o, f)
                             => Meant(U, m, p, f)
    BY <2>1, StillMeant
  <2> QED BY <2>2 DEF o, p, n, m
<1>4. \A w \in Workers : \A i \in Held(w) \cup RanIds : i \in Requests /\ opts'[i] = opts[i]
  BY DEF OrderInv, Behind, Kept
<1>5. \A w \in Workers : \A f \in Entries(inbox[w]) : Meant(U, nextTok', opts', f)
  <2> SUFFICES ASSUME NEW w \in Workers, NEW f \in Entries(inbox[w])
               PROVE  Meant(U, nextTok', opts', f)
    OBVIOUS
  <2>1. f \in Frames
    BY <1>1, Listed
  <2>2. f.type = "execute" => f.id \in Held(w)
    BY DEF Held, HoldsOf, ExecFrames
  <2>3. Meant(V, nextTok, opts, f)
    BY DEF TokenInv
  <2> QED BY <1>3, <1>4, <2>1, <2>2, <2>3
<1>6. \A w \in Workers : \A f \in Entries(inbox'[w]) : Meant(U, nextTok', opts', f)
  BY <1>5
<1>7. \A w \in Workers : \A j \in Entries(jobs[w]) : Carries(U, nextTok', opts', j)
  <2> SUFFICES ASSUME NEW w \in Workers, NEW j \in Entries(jobs[w])
               PROVE  Carries(U, nextTok', opts', j)
    OBVIOUS
  <2>1. j \in Jobs
    BY <1>1, Listed
  <2>2. j.id \in Held(w) /\ j.ref \in Nat
    BY <2>1 DEF Held, HoldsOf, Jobs
  <2>3. Carries(V, nextTok, opts, j)
    BY DEF TokenInv
  <2> QED BY <1>3, <1>4, <2>2, <2>3
<1>8. ASSUME NEW w \in Workers, wsnap[w].token # NoToken
      PROVE  wsnap[w].token < nextTok' /\ U[wsnap[w].token] = wsnap[w].val
  <2>1. wsnap[w].token \in Nat /\ wsnap[w].token < nextTok /\ V[wsnap[w].token] = wsnap[w].val
    BY <1>1, <1>8 DEF TokenInv
  <2>2. wsnap[w].token < nextTok' /\ wsnap[w].token \in 0..nextTok - 1
    BY <1>2, <2>1, Zenon
  <2>3. U[wsnap[w].token] = V[wsnap[w].token]
    BY <2>2, Zenon
  <2> QED BY <2>1, <2>2, <2>3, Zenon
<1>9. \A w \in Workers : \A r \in Entries(outbox'[w]) : r.type = "snapshotAck" => r.tok < nextTok'
  <2> SUFFICES ASSUME NEW w \in Workers, NEW r \in Entries(outbox[w]), r.type = "snapshotAck"
               PROVE  r.tok < nextTok'
    OBVIOUS
  <2>1. r \in Replies
    BY <1>1, Listed
  <2>2. r.tok \in Nat /\ r.tok < nextTok
    BY <2>1 DEF Replies, TokenInv
  <2> QED BY <1>2, <2>2, Zenon
<1>10. RanOnItsSnapshot'
  <2> SUFFICES ASSUME NEW i \in 1..Len(ran) PROVE ran[i].data = opts'[ran[i].id].data
    BY <1>1 DEF RanOnItsSnapshot
  <2>1. ran[i].id \in RanIds /\ ran[i].data = opts[ran[i].id].data
    BY DEF RanIds, Entries, TokenInv, RanOnItsSnapshot
  <2>2. opts'[ran[i].id] = opts[ran[i].id]
    BY <2>1 DEF OrderInv, Behind, Kept
  <2> QED BY <2>1, <2>2
<1>11. nextTok' > 0
  BY <1>1
<1>12. \A w \in Workers : \A j \in Entries(jobs'[w]) : Carries(U, nextTok', opts', j)
  BY <1>1, <1>7
<1>13. \A w \in Workers : wsnap'[w].token # NoToken =>
          wsnap'[w].token < nextTok' /\ U[wsnap'[w].token] = wsnap'[w].val
  BY <1>1, <1>8
<1> QED BY <1>6, <1>9, <1>10, <1>11, <1>12, <1>13 DEF TokenInv

\* A fork: the frames that are new are an init frame and perhaps a beginBlock.
LEMMA ForkArrives ==
    ASSUME Wires, Forks \/ Latches, NEW w \in Workers
    PROVE  \A f \in Entries(inbox'[w]) : f \in Entries(inbox[w]) \/ f.type \in {"init", "beginBlock"}
<1>1. CASE inbox' = inbox
  BY <1>1
<1>2. ASSUME NEW box \in {<<Frame("init", 0, 0, 0)>>,
                          <<Frame("init", 0, 0, 0), Frame("beginBlock", 0, 0, 0)>>},
             inbox' = [inbox EXCEPT ![gen + 1] = box]
      PROVE  \A f \in Entries(inbox'[w]) : f \in Entries(inbox[w]) \/ f.type \in {"init", "beginBlock"}
  <2>1. \A f \in Entries(box) : f.type \in {"init", "beginBlock"}
    BY FreshBox
  <2>2. inbox'[w] = IF w = gen + 1 THEN box ELSE inbox[w]
    BY <1>2 DEF Wires
  <2> QED BY <2>1, <2>2
<1> QED BY <1>1, <1>2 DEF Forks, Latches

\* A step of the executor gives a value to at most one new token.
LEMMA ExecutorTokens ==
    ASSUME TypeOK, TypeOK', Wires, OrderInv, BlockInv, UNCHANGED workerVars, Steered,
           \A w \in Workers : Entries(outbox'[w]) \subseteq Entries(outbox[w]),
           NEW V \in [Nat -> Nat], TokenInv(V)
    PROVE  \E U \in [Nat -> Nat] : TokenInv(U)'
<1>1. /\ nextTok \in Nat /\ nextTok > 0 /\ blockNo \in Nat /\ child \in Workers \cup {NoChild}
      /\ chan \in Channels /\ chan.token \in Nat /\ chan.snapshot \in Nat
      /\ opts' \in [Requests -> [kind : AllOptKinds, data : Nat]]
      /\ chan.set => chan.token \in 1..nextTok - 1 /\ V[chan.token] = chan.snapshot
      /\ Kept
  BY DEF TypeOK, TokenInv, Steered, Channels
<1>2. ASSUME nextTok' = nextTok, SameChoice \/ ~chan'.set,
             NEW F, \A f \in F : Meant(V, nextTok, opts', f),
             \A w \in Workers : Entries(inbox'[w]) \subseteq Entries(inbox[w]) \cup F
      PROVE  \E U \in [Nat -> Nat] : TokenInv(U)'
  <2>1. nextTok <= nextTok' /\ \A k \in 0..nextTok - 1 : V[k] = V[k]
    BY <1>1, <1>2
  <2>2. chan'.set => chan'.token \in 1..nextTok' - 1 /\ V[chan'.token] = chan'.snapshot
    BY <1>1, <1>2 DEF SameChoice
  <2>3. \A f \in F : Meant(V, nextTok', opts', f)
    BY <1>2
  <2>4. TokenInv(V)'
    BY <1>1, <1>2, <2>1, <2>2, <2>3, TokensCarry
  <2> QED BY <2>4
<1>3. ASSUME NEW f \in Frames, Posted(f)
      PROVE  \A w \in Workers : Entries(inbox'[w]) \subseteq Entries(inbox[w]) \cup {f}
  BY <1>1, <1>3, PostedArrives
<1>4. CASE Keeps
  <2> DEFINE F == {}
  <2>1. \A w \in Workers : Entries(inbox'[w]) \subseteq Entries(inbox[w]) \cup F
    BY <1>4 DEF Keeps
  <2>2. nextTok' = nextTok /\ SameChoice
    BY <1>4 DEF Keeps, SameChoice
  <2>3. \A f \in F : Meant(V, nextTok, opts', f)
    OBVIOUS
  <2> HIDE DEF F
  <2> QED BY <1>2, <2>1, <2>2, <2>3
<1>5. CASE Resends
  <2> DEFINE f == Frame("snapshot", 0, chan.token, chan.snapshot)
  <2>1. f \in Frames /\ Meant(V, nextTok, opts', f)
    BY <1>1, <1>5 DEF Resends, Frame, Frames, FrameTypes, Meant
  <2> HIDE DEF f
  <2>2. \A w \in Workers : Entries(inbox'[w]) \subseteq Entries(inbox[w]) \cup {f}
    BY <1>3, <1>5, <2>1 DEF Resends, f
  <2>3. nextTok' = nextTok /\ SameChoice
    BY <1>5 DEF Resends, SameChoice
  <2>4. \A g \in {f} : Meant(V, nextTok, opts', g)
    BY <2>1
  <2> QED BY <1>2, <2>2, <2>3, <2>4
<1>6. CASE Picks
  <2> DEFINE f == Frame("snapshot", 0, nextTok, blockNo)
  <2>1. PICK U \in [Nat -> Nat] :
          U[nextTok] = blockNo /\ \A k \in 0..nextTok - 1 : U[k] = V[k]
    <3> DEFINE W == [V EXCEPT ![nextTok] = blockNo]
    <3>1. \A k \in 0..nextTok - 1 : k \in Nat /\ k # nextTok
      BY <1>1
    <3>2. W \in [Nat -> Nat] /\ W[nextTok] = blockNo /\ \A k \in 0..nextTok - 1 : W[k] = V[k]
      BY <1>1, <3>1
    <3> QED BY <3>2
  <2>2. nextTok' = nextTok + 1 /\ chan'.token = nextTok /\ chan'.snapshot = blockNo
    BY <1>6 DEF Picks
  <2>3. nextTok \in 1..nextTok' - 1 /\ nextTok <= nextTok'
    BY <1>1, <2>2
  <2>4. f \in Frames /\ f.type = "snapshot" /\ f.ref = nextTok /\ f.val = blockNo
    BY <1>1 DEF Frame, Frames, FrameTypes
  <2> HIDE DEF f
  <2>5. Meant(U, nextTok', opts', f)
    BY <2>1, <2>3, <2>4 DEF Meant
  <2>6. \A w \in Workers : Entries(inbox'[w]) \subseteq Entries(inbox[w]) \cup {f}
    BY <1>3, <1>6, <2>4 DEF Picks, f
  <2>7. chan'.set => chan'.token \in 1..nextTok' - 1 /\ U[chan'.token] = chan'.snapshot
    BY <2>1, <2>2, <2>3
  <2> DEFINE F == {f}
  <2>8. /\ \A g \in F : Meant(U, nextTok', opts', g)
        /\ \A w \in Workers : Entries(inbox'[w]) \subseteq Entries(inbox[w]) \cup F
    BY <2>5, <2>6
  <2> HIDE DEF F
  <2>9. nextTok <= nextTok' /\ \A k \in 0..nextTok - 1 : U[k] = V[k]
    BY <2>1, <2>3
  <2>10. TokenInv(U)'
    BY <1>1, <2>7, <2>8, <2>9, TokensCarry
  <2> QED BY <2>10
<1>7. CASE Gives
  <2>1. PICK id \in Requests :
          /\ hasSerializableCrossChainSnapshot(opts'[id]) => opts'[id].data = blockNo
          /\ Posted(ExecuteFrame(chan, id, opts'[id]))
    BY <1>7 DEF Gives
  <2> DEFINE f == ExecuteFrame(chan, id, opts'[id])
  <2>2. id \in Nat /\ opts'[id].data \in Nat
    BY <1>1, ExecutorAssumption DEF Requests
  <2>3. f \in Frames /\ f.type = "execute" /\ f.id = id
    BY <1>1, <2>2 DEF ExecuteFrame, Frame, Frames, FrameTypes, NoToken
  <2>4. Carries(V, nextTok, opts', f)
    <3>1. CASE Referenced(chan, opts'[id])
      <4>1. f.ref = chan.token /\ chan.set /\ hasSerializableCrossChainSnapshot(opts'[id])
        BY <3>1 DEF ExecuteFrame, Frame, Referenced
      <4>2. V[chan.token] = opts'[id].data /\ chan.token < nextTok /\ chan.token # NoToken
        BY <1>1, <2>1, <4>1 DEF BlockInv, NoToken
      <4> QED BY <2>3, <4>1, <4>2 DEF Carries
    <3>2. CASE ~Referenced(chan, opts'[id])
      <4>1. f.ref = NoToken /\ f.val = opts'[id].data
        BY <3>2 DEF ExecuteFrame, Frame
      <4> QED BY <2>3, <4>1 DEF Carries
    <3> QED BY <3>1, <3>2
  <2> HIDE DEF f
  <2>5. \A w \in Workers : Entries(inbox'[w]) \subseteq Entries(inbox[w]) \cup {f}
    BY <1>3, <2>1, <2>3 DEF f
  <2>6. nextTok' = nextTok /\ SameChoice
    BY <1>7 DEF Gives, SameChoice
  <2>7. \A g \in {f} : Meant(V, nextTok, opts', g)
    BY <2>3, <2>4 DEF Meant
  <2> QED BY <1>2, <2>5, <2>6, <2>7
<1>8. CASE Turns
  <2>1. PICK type \in {"beginBlock", "endBlock"} : Posted(Frame(type, 0, 0, 0))
    BY <1>8 DEF Turns
  <2> DEFINE f == Frame(type, 0, 0, 0)
  <2>2. f \in Frames /\ f.type = type
    BY DEF Frame, Frames, FrameTypes
  <2> HIDE DEF f
  <2>3. \A w \in Workers : Entries(inbox'[w]) \subseteq Entries(inbox[w]) \cup {f}
    BY <1>3, <2>1, <2>2 DEF f
  <2>4. nextTok' = nextTok /\ ~chan'.set
    BY <1>8 DEF Turns, NoSnapshot
  <2>5. \A g \in {f} : Meant(V, nextTok, opts', g)
    BY <2>2 DEF Meant
  <2> QED BY <1>2, <2>3, <2>4, <2>5
<1>9. CASE Respawns
  <2> DEFINE F == {f \in UNION {Entries(inbox'[w]) : w \in Workers} : f.type \in {"init", "beginBlock"}}
  <2>1. \A w \in Workers : Entries(inbox'[w]) \subseteq Entries(inbox[w]) \cup F
    BY <1>9, ForkArrives DEF Respawns
  <2>2. \A f \in F : Meant(V, nextTok, opts', f)
    BY DEF Meant
  <2>3. nextTok' = nextTok /\ SameChoice
    BY <1>9 DEF Respawns, SameChoice
  <2> HIDE DEF F
  <2> QED BY <1>2, <2>1, <2>2, <2>3
<1> QED BY <1>4, <1>5, <1>6, <1>7, <1>8, <1>9 DEF Steered, Steers

\* The snapshots of the waiting calls through a step of the executor.
LEMMA ExecutorBlock ==
    ASSUME BlockInv, Steered
    PROVE  BlockInv'
<1>1. \A i \in Requests : outcome'[i] = "waiting" /\ hasSerializableCrossChainSnapshot(opts'[i])
                             => opts'[i].data = blockNo'
  BY DEF Steered, Dated
<1>2. Steers /\ (blockNo' = blockNo \/ ~chan'.set)
  BY DEF Steered
<1>3. /\ chan.set => chan.snapshot = blockNo
      /\ chan.sent => chan.set
      /\ chan.acked \/ AckSeen => chan.sent
  BY DEF BlockInv, AckSeen
<1> DEFINE Follows == /\ chan'.set => chan'.snapshot = blockNo
                      /\ chan'.sent => chan'.set
                      /\ chan'.acked => chan'.sent
<1>4. ASSUME Keeps \/ Gives PROVE Follows
  BY <1>3, <1>4 DEF Keeps, Gives, SameChoice, AckKept
<1>5. ASSUME Resends \/ Respawns PROVE Follows
  BY <1>3, <1>5 DEF Resends, Respawns, SameChoice
<1>6. ASSUME Picks PROVE Follows
  BY <1>6 DEF Picks
<1>7. ASSUME Turns PROVE Follows
  BY <1>7 DEF Turns, NoSnapshot
<1>8. Follows
  BY <1>2, <1>4, <1>5, <1>6, <1>7, Zenon DEF Steers
<1> QED BY <1>1, <1>2, <1>8 DEF BlockInv

\* What a worker's inbox loses.
LEMMA TookLess ==
    ASSUME Wires, NEW w \in Workers, Took(w)
    PROVE  /\ inbox'[w] = Tail(inbox[w]) /\ inbox[w] \in Seq(Frames)
           /\ Head(inbox[w]) \in Entries(inbox[w]) /\ Head(inbox[w]) \in Frames
           /\ Entries(inbox'[w]) \subseteq Entries(inbox[w])
<1>1. inbox \in [Workers -> Seq(Frames)] /\ inbox[w] \in Seq(Frames) /\ inbox[w] # <<>>
  BY DEF Wires, Took
<1>2. inbox'[w] = Tail(inbox[w])
  BY <1>1 DEF Took
<1>3. Head(inbox[w]) \in Frames /\ Entries(inbox[w]) = {Head(inbox[w])} \cup Entries(Tail(inbox[w]))
  BY <1>1, TakeFirst
<1> QED BY <1>1, <1>2, <1>3

\* A worker's step gives no token another value, and its contract sees the data of
\* its call.
LEMMA WorkerTokens ==
    ASSUME Wires, Wires', NEW w \in Workers, Heeds(w),
           UNCHANGED <<nextTok, chan, opts>>, nextTok \in Nat, NEW V, TokenInv(V)
    PROVE  TokenInv(V)'
<1>1. /\ inbox \in [Workers -> Seq(Frames)] /\ inbox[w] \in Seq(Frames)
      /\ wsnap \in [Workers -> [token : Nat, val : Nat]] /\ ran \in Seq(Starts)
  BY DEF Wires
<1>2. /\ \A v \in Workers : \A f \in Entries(inbox[v]) : Meant(V, nextTok, opts, f)
      /\ \A v \in Workers : \A j \in Entries(jobs[v]) : Carries(V, nextTok, opts, j)
      /\ \A v \in Workers : wsnap[v].token # NoToken =>
          wsnap[v].token < nextTok /\ V[wsnap[v].token] = wsnap[v].val
      /\ \A v \in Workers : \A r \in Entries(outbox[v]) : r.type = "snapshotAck" => r.tok < nextTok
      /\ RanOnItsSnapshot
  BY DEF TokenInv
<1>3. \A v \in Workers : Entries(inbox'[v]) \subseteq Entries(inbox[v])
  <2>1. \A v \in Workers \ {w} : inbox'[v] = inbox[v]
    BY DEF Heeds
  <2>2. Entries(inbox'[w]) \subseteq Entries(inbox[w])
    <3>1. CASE Took(w)
      BY <3>1, TookLess
    <3>2. CASE inbox' = [inbox EXCEPT ![w] = <<>>]
      <4>1. inbox'[w] = <<>> /\ Entries(<<>>) = {}
        BY <1>1, <3>2 DEF Entries
      <4> QED BY <4>1
    <3> QED BY <3>1, <3>2 DEF Heeds, Takes, Drops, Passes
  <2> QED BY <2>1, <2>2
<1>4. \A x \in Loads(w) : Carries(V, nextTok, opts, x)
  BY <1>2 DEF Loads, ExecFrames, Meant
<1>5. \A v \in Workers : \A j \in Entries(jobs'[v]) : Carries(V, nextTok, opts, j)
  <2>1. \A v \in Workers \ {w} : jobs'[v] = jobs[v]
    BY DEF Heeds
  <2>2. ASSUME NEW j \in Entries(jobs'[w]) PROVE Carries(V, nextTok, opts, j)
    <3>1. PICK x \in Loads(w) : Alike(x, j)
      BY DEF Heeds
    <3> QED BY <1>4, <3>1 DEF Carries, Alike
  <2> QED BY <1>2, <2>1, <2>2
<1>6. ASSUME Takes(w)
      PROVE  /\ Head(inbox[w]).ref < nextTok /\ V[Head(inbox[w]).ref] = Head(inbox[w]).val
             /\ wsnap'[w].token = Head(inbox[w]).ref /\ wsnap'[w].val = Head(inbox[w]).val
             /\ Entries(outbox'[w]) = Entries(outbox[w]) \cup {Reply("snapshotAck", 0, Head(inbox[w]).ref)}
  <2>1. Head(inbox[w]).type = "snapshot" /\ Head(inbox[w]) \in Entries(inbox[w])
    BY <1>6, TookLess DEF Takes
  <2>2. Head(inbox[w]).ref \in 1..nextTok - 1 /\ V[Head(inbox[w]).ref] = Head(inbox[w]).val
    BY <1>2, <2>1 DEF Meant
  <2>3. Head(inbox[w]).ref < nextTok
    <3>1. Head(inbox[w]).ref \in Nat
      BY <1>6, TookLess DEF Takes, Frames
    <3> QED BY <2>2, <3>1
  <2> QED BY <1>6, <2>2, <2>3 DEF Takes
<1>7. ASSUME NEW v \in Workers, wsnap'[v].token # NoToken
      PROVE  wsnap'[v].token < nextTok /\ V[wsnap'[v].token] = wsnap'[v].val
  <2>1. CASE v # w
    BY <1>2, <1>7, <2>1 DEF Heeds
  <2>2. CASE v = w
    BY <1>2, <1>6, <1>7, <2>2 DEF Heeds, Drops, Passes
  <2> QED BY <2>1, <2>2
<1>8. ASSUME NEW v \in Workers, NEW r \in Entries(outbox'[v]), r.type = "snapshotAck"
      PROVE  r.tok < nextTok
  <2>1. CASE v # w
    BY <1>2, <1>8, <2>1 DEF Heeds
  <2>2. CASE v = w /\ Takes(w)
    BY <1>2, <1>6, <1>8, <2>2 DEF Reply
  <2>3. CASE v = w /\ (Drops(w) \/ Passes(w))
    BY <1>2, <1>8, <2>3 DEF Drops, Passes
  <2> QED BY <2>1, <2>2, <2>3 DEF Heeds
<1>9. RanOnItsSnapshot'
  <2>1. CASE ran' = ran
    BY <1>2, <2>1 DEF RanOnItsSnapshot
  <2>2. ASSUME NEW j \in Entries(jobs[w]), Resolves(w, j),
               ran' = Append(ran, [id |-> j.id, data |-> Resolved(w, j), w |-> w])
        PROVE  RanOnItsSnapshot'
    <3> DEFINE s == [id |-> j.id, data |-> Resolved(w, j), w |-> w]
    <3>1. Carries(V, nextTok, opts, j)
      BY <1>2
    <3>2. Resolved(w, j) = opts[j.id].data
      <4>1. CASE j.ref = NoToken
        BY <3>1, <4>1 DEF Resolved, Carries
      <4>2. CASE j.ref # NoToken
        <5>1. wsnap[w].token = j.ref
          BY <2>2, <4>2 DEF Resolves
        <5>2. V[j.ref] = opts[j.id].data /\ V[j.ref] = wsnap[w].val
          BY <1>2, <3>1, <4>2, <5>1 DEF Carries
        <5> QED BY <4>2, <5>2 DEF Resolved
      <4> QED BY <4>1, <4>2
    <3>3. s.id = j.id /\ s.data = opts[j.id].data
      BY <3>2
    <3> HIDE DEF s
    <3>4. /\ Len(ran') = Len(ran) + 1 /\ Len(ran) \in Nat
          /\ \A i \in 1..Len(ran) : ran'[i] = ran[i]
          /\ ran'[Len(ran) + 1] = s
      <4>1. ran' = Append(ran, s)
        BY <2>2 DEF s
      <4> QED BY <1>1, <4>1, AppendProperties, LenProperties
    <3>5. \A i \in 1..Len(ran') : i \in 1..Len(ran) \/ i = Len(ran) + 1
      BY <3>4
    <3> SUFFICES ASSUME NEW i \in 1..Len(ran') PROVE ran'[i].data = opts[ran'[i].id].data
      BY DEF RanOnItsSnapshot
    <3>6. CASE i \in 1..Len(ran)
      BY <1>2, <3>4, <3>6 DEF RanOnItsSnapshot
    <3>7. CASE i = Len(ran) + 1
      BY <3>3, <3>4, <3>7
    <3> QED BY <3>5, <3>6, <3>7
  <2> QED BY <2>1, <2>2 DEF Heeds, Sees
<1>10. \A v \in Workers : \A f \in Entries(inbox'[v]) : Meant(V, nextTok, opts, f)
  BY <1>2, <1>3
<1>11. /\ nextTok' > 0
       /\ chan'.set => chan'.token \in 1..nextTok' - 1 /\ V[chan'.token] = chan'.snapshot
  BY DEF TokenInv
<1> QED BY <1>5, <1>7, <1>8, <1>9, <1>10, <1>11 DEF TokenInv

(***************************************************************************)
(* References resolve.                                                     *)
(***************************************************************************)
\* What AckInv says of the worker the executor talks to.
Ready(w) ==
    /\ chan.acked \/ AckSeen => wsnap[w].token = chan.token /\ Steady(inbox[w])
    /\ chan.sent => LastWord(inbox[w], chan.token)
    /\ chan.set /\ ~chan.sent =>
         /\ \A r \in Entries(outbox[w]) : r.type # "snapshotAck"
         /\ \A f \in Entries(inbox[w]) : f.type # "snapshot"
    /\ \A f \in ExecFrames(inbox[w]) : Awaited(f)
    /\ \A j \in Entries(jobs[w]) : Awaited(j)

\* A frame that is posted comes last.
LEMMA PostedLast ==
    ASSUME NEW box \in Seq(Frames), NEW f \in Frames, NEW tok
    PROVE  /\ Entries(Append(box, f)) = Entries(box) \cup {f}
           /\ ExecFrames(Append(box, f)) \subseteq ExecFrames(box) \cup {f}
           /\ Undisturbed(f) /\ Steady(box) => Steady(Append(box, f))
           /\ Undisturbed(f) /\ LastWord(box, tok) => LastWord(Append(box, f), tok)
           /\ (\A g \in Entries(box) : ~(g.type = "snapshot" /\ g.ref = tok))
                 => LastWord(Append(box, f), tok)
<1>1. /\ Len(Append(box, f)) = Len(box) + 1 /\ Len(box) \in Nat
      /\ \A i \in 1..Len(box) : Append(box, f)[i] = box[i]
      /\ Append(box, f)[Len(box) + 1] = f
      /\ Entries(Append(box, f)) = Entries(box) \cup {f}
  BY PutLast
<1> DEFINE new == Append(box, f)
<1> HIDE DEF new
<1>2. \A a, b \in 1..Len(new) : a < b =>
          /\ a \in 1..Len(box) /\ new[a] = box[a] /\ box[a] \in Entries(box)
          /\ (b \in 1..Len(box) /\ new[b] = box[b]) \/ new[b] = f
  <2> SUFFICES ASSUME NEW a \in 1..Len(new), NEW b \in 1..Len(new), a < b
               PROVE  /\ a \in 1..Len(box) /\ new[a] = box[a] /\ box[a] \in Entries(box)
                      /\ (b \in 1..Len(box) /\ new[b] = box[b]) \/ new[b] = f
    OBVIOUS
  <2>1. a \in 1..Len(box) /\ (b \in 1..Len(box) \/ b = Len(box) + 1)
    BY <1>1 DEF new
  <2> QED BY <1>1, <2>1 DEF new, Entries
<1>3. ASSUME Undisturbed(f), LastWord(box, tok) PROVE LastWord(new, tok)
  BY <1>2, <1>3 DEF LastWord
<1>4. ASSUME \A g \in Entries(box) : ~(g.type = "snapshot" /\ g.ref = tok)
      PROVE  LastWord(new, tok)
  BY <1>2, <1>4 DEF LastWord
<1>5. Undisturbed(f) /\ Steady(box) => Steady(new)
  BY <1>1 DEF Steady, new
<1>6. ExecFrames(new) \subseteq ExecFrames(box) \cup {f}
  BY <1>1 DEF ExecFrames, new
<1> QED BY <1>1, <1>3, <1>4, <1>5, <1>6 DEF new

\* A frame that is taken was first.
LEMMA TakenFirst ==
    ASSUME NEW box \in Seq(Frames), box # <<>>, NEW tok
    PROVE  /\ Head(box) \in Entries(box)
           /\ Entries(Tail(box)) \subseteq Entries(box)
           /\ ExecFrames(Tail(box)) \subseteq ExecFrames(box)
           /\ Steady(box) => Undisturbed(Head(box)) /\ Steady(Tail(box))
           /\ LastWord(box, tok) => LastWord(Tail(box), tok)
           /\ LastWord(box, tok) /\ Head(box).type = "snapshot" /\ Head(box).ref = tok
                 => Steady(Tail(box))
<1>1. /\ Len(box) \in Nat /\ Len(box) > 0 /\ Len(Tail(box)) = Len(box) - 1
      /\ Head(box) = box[1] /\ \A i \in 1..Len(Tail(box)) : Tail(box)[i] = box[i + 1]
      /\ Entries(box) = {Head(box)} \cup Entries(Tail(box))
  BY TakeFirst
<1>2. \A i \in 1..Len(Tail(box)) : i + 1 \in 1..Len(box) /\ 1 < i + 1
  BY <1>1
<1>3. \A a, b \in 1..Len(Tail(box)) : a < b => a + 1 < b + 1
  BY <1>1
<1>4. 1 \in 1..Len(box)
  BY <1>1
<1> DEFINE new == Tail(box)
<1>5. LastWord(box, tok) => LastWord(new, tok)
  <2> SUFFICES ASSUME LastWord(box, tok), NEW a \in 1..Len(new), NEW b \in 1..Len(new), a < b,
                      new[a].type = "snapshot", new[a].ref = tok
               PROVE  Undisturbed(new[b])
    BY DEF LastWord
  <2>1. /\ a + 1 \in 1..Len(box) /\ b + 1 \in 1..Len(box) /\ a + 1 < b + 1
        /\ new[a] = box[a + 1] /\ new[b] = box[b + 1]
    BY <1>1, <1>2, <1>3
  <2> QED BY <2>1 DEF LastWord
<1>6. LastWord(box, tok) /\ Head(box).type = "snapshot" /\ Head(box).ref = tok => Steady(new)
  <2> SUFFICES ASSUME LastWord(box, tok), box[1].type = "snapshot", box[1].ref = tok,
                      NEW i \in 1..Len(new)
               PROVE  Undisturbed(new[i])
    BY <1>1 DEF Steady, Entries
  <2>1. i + 1 \in 1..Len(box) /\ 1 < i + 1 /\ new[i] = box[i + 1]
    BY <1>1, <1>2
  <2> QED BY <1>4, <2>1 DEF LastWord
<1> HIDE DEF new
<1>7. Entries(box) = {Head(box)} \cup Entries(new)
  BY <1>1 DEF new
<1>8. Entries(new) \subseteq Entries(box) /\ ExecFrames(new) \subseteq ExecFrames(box)
  BY <1>7 DEF ExecFrames
<1> QED BY <1>5, <1>6, <1>7, <1>8 DEF new, Steady

\* The snapshot in place through a step of the executor.
LEMMA ExecutorAck ==
    ASSUME TypeOK, TypeOK', Wires, HoldInv, BlockInv, BlockInv', AckInv, Silence,
           UNCHANGED workerVars, Steered, NEW V, TokenInv(V),
           \A w \in Workers : Entries(outbox'[w]) \subseteq Entries(outbox[w])
    PROVE  AckInv'
<1> SUFFICES ASSUME (child # NoChild /\ Alive(child))'
             PROVE  Ready(child)'
  BY DEF AckInv, Ready
<1>1. /\ child' \in Workers /\ child' # NoChild /\ jobs' = jobs /\ wsnap' = wsnap
      /\ inbox \in [Workers -> Seq(Frames)] /\ outbox \in [Workers -> Seq(Replies)]
      /\ nextTok \in Nat /\ gen \in Nat /\ child \in Workers \cup {NoChild}
  <2>1. child' \in Workers \cup {NoChild} /\ gen \in 0..MaxWorkers
    BY DEF TypeOK
  <2>2. gen \in Nat
    BY <2>1, WorkerAssumption
  <2> QED BY <2>1, <2>2 DEF TypeOK, workerVars, Wires
<1>2. AckSeen' => \E r \in Entries(outbox[child']) :
                     r.type = "snapshotAck" /\ chan'.sent /\ r.tok = chan'.token
  BY <1>1 DEF AckSeen
<1>3. ASSUME UNCHANGED <<child, wstate>>
      PROVE  child \in Workers /\ Ready(child) /\ inbox[child] \in Seq(Frames)
  BY <1>1, <1>3 DEF AckInv, Ready, Alive
<1>4. ASSUME NEW f \in Frames, Posted(f), UNCHANGED <<child, wstate>>
      PROVE  inbox'[child] = inbox[child] \/ inbox'[child] = Append(inbox[child], f)
  BY <1>1, <1>3, <1>4 DEF Posted
<1>5. ASSUME pending' = {} PROVE \A x : Awaited(x)'
  BY <1>5 DEF Awaited
<1>6. CASE Keeps
  <2>1. /\ child' = child /\ UNCHANGED <<wstate, inbox>> /\ chan'.token = chan.token
        /\ chan'.set = chan.set /\ chan'.sent = chan.sent /\ pending' \subseteq pending
        /\ chan'.acked => chan.acked \/ AckSeen
        /\ chan.acked => chan'.acked
    BY <1>1, <1>6 DEF Keeps, SameChoice, AckKept
  <2>2. Ready(child) /\ (AckSeen' => AckSeen)
    BY <1>1, <1>2, <1>3, <2>1 DEF AckSeen
  <2>3. \A x : Awaited(x) => Awaited(x)'
    BY <2>1 DEF Awaited
  <2>4. \A r \in Entries(outbox'[child]) : r \in Entries(outbox[child])
    BY <1>1, <2>1
  <2> QED BY <1>1, <2>1, <2>2, <2>3, <2>4 DEF Ready
<1>7. CASE Resends
  <2> DEFINE f == Frame("snapshot", 0, chan.token, chan.snapshot)
  <2>1. /\ UNCHANGED <<child, wstate>> /\ chan'.token = chan.token /\ chan'.sent /\ ~chan'.acked
        /\ chan.set /\ ~chan.sent /\ pending' = {} /\ Posted(f)
    BY <1>7 DEF Resends, SameWorker, SameChoice
  <2>2. f \in Frames
    BY DEF TypeOK, Channels, Frame, Frames, FrameTypes
  <2> HIDE DEF f
  <2>3. /\ child \in Workers /\ inbox[child] \in Seq(Frames)
        /\ \A r \in Entries(outbox[child]) : r.type # "snapshotAck"
        /\ \A g \in Entries(inbox[child]) : g.type # "snapshot"
    BY <1>3, <2>1 DEF Ready
  <2>4. ~AckSeen'
    BY <1>2, <2>1, <2>3
  <2>5. LastWord(Append(inbox[child], f), chan.token)
    BY <2>2, <2>3, PostedLast
  <2>6. LastWord(inbox[child], chan.token)
    BY <2>3 DEF LastWord, Entries
  <2>7. LastWord(inbox'[child], chan.token)
    BY <1>4, <2>1, <2>2, <2>5, <2>6
  <2> QED BY <1>5, <2>1, <2>4, <2>7 DEF Ready
<1>8. CASE Picks
  <2> DEFINE f == Frame("snapshot", 0, nextTok, blockNo)
  <2>1. /\ UNCHANGED <<child, wstate>> /\ chan'.token = nextTok /\ chan'.sent /\ ~chan'.acked
        /\ pending' = {} /\ Posted(f)
    BY <1>8 DEF Picks, SameWorker
  <2>2. f \in Frames
    BY DEF TypeOK, Frame, Frames, FrameTypes
  <2> HIDE DEF f
  <2>3. child \in Workers /\ inbox[child] \in Seq(Frames)
    BY <1>3, <2>1
  <2>4. \A g \in Entries(inbox[child]) : ~(g.type = "snapshot" /\ g.ref = nextTok)
    <3> SUFFICES ASSUME NEW g \in Entries(inbox[child]), g.type = "snapshot", g.ref = nextTok
                 PROVE  FALSE
      OBVIOUS
    <3>1. g.ref \in 1..nextTok - 1
      BY <2>3 DEF TokenInv, Meant
    <3> QED BY <1>1, <3>1
  <2>5. ~AckSeen'
    <3> SUFFICES ASSUME NEW r \in Entries(outbox[child]), r.type = "snapshotAck", r.tok = nextTok
                 PROVE  FALSE
      BY <1>2, <2>1
    <3>1. r.tok < nextTok
      BY <2>3 DEF TokenInv
    <3> QED BY <1>1, <3>1
  <2>6. LastWord(Append(inbox[child], f), nextTok)
    BY <2>2, <2>3, <2>4, PostedLast
  <2>7. LastWord(inbox[child], nextTok)
    BY <2>4 DEF LastWord, Entries
  <2>8. LastWord(inbox'[child], nextTok)
    BY <1>4, <2>1, <2>2, <2>6, <2>7
  <2> QED BY <1>5, <2>1, <2>5, <2>8 DEF Ready
<1>9. CASE Gives
  <2>1. PICK id \in Requests :
          /\ \A w \in Workers : id \notin Held(w)
          /\ pending' = {id} /\ Posted(ExecuteFrame(chan, id, opts'[id]))
    BY <1>9 DEF Gives
  <2>2. /\ UNCHANGED <<child, wstate>> /\ chan'.token = chan.token /\ chan'.set = chan.set
        /\ chan'.sent = chan.sent /\ (chan.set => chan'.acked)
        /\ chan'.acked => chan.acked \/ AckSeen
    BY <1>9 DEF Gives, SameWorker, SameChoice, AckKept
  <2>3. PICK f : f = ExecuteFrame(chan, id, opts'[id])
    OBVIOUS
  <2>4. f \in Frames /\ f.type = "execute" /\ (f.ref # NoToken => chan.set /\ f.ref = chan.token)
    <3>1. id \in Nat /\ opts'[id].data \in Nat /\ chan.token \in Nat
      <4>1. opts' \in [Requests -> [kind : AllOptKinds, data : Nat]] /\ chan \in Channels
        BY DEF TypeOK
      <4>2. opts'[id].data \in Nat /\ chan.token \in Nat
        BY <4>1 DEF Channels
      <4> QED BY <4>2, ExecutorAssumption DEF Requests
    <3>2. \E ref, val \in Nat : f = Frame("execute", id, ref, val)
      BY <2>3, <3>1 DEF ExecuteFrame, NoToken
    <3>3. f \in Frames /\ f.type = "execute"
      BY <3>1, <3>2 DEF Frame, Frames, FrameTypes
    <3>4. f.ref # NoToken => chan.set /\ f.ref = chan.token
      BY <2>3 DEF ExecuteFrame, Referenced, Frame
    <3> QED BY <3>3, <3>4
  <2>5. child \in Workers /\ inbox[child] \in Seq(Frames) /\ Ready(child) /\ (AckSeen' => AckSeen)
    BY <1>1, <1>2, <1>3, <2>2 DEF AckSeen
  <2>6. Undisturbed(f)
    BY <2>4 DEF Undisturbed
  <2>7. ASSUME NEW x, x.id \in Held(child) PROVE Awaited(x)'
    BY <2>1, <2>5, <2>7 DEF Awaited
  <2>8. Awaited(f)'
    BY <2>2, <2>4 DEF Awaited
  <2>9. inbox'[child] = inbox[child] \/ inbox'[child] = Append(inbox[child], f)
    BY <1>4, <2>1, <2>2, <2>4, <2>3
  <2>10. /\ ExecFrames(inbox'[child]) \subseteq ExecFrames(inbox[child]) \cup {f}
         /\ Steady(inbox[child]) => Steady(inbox'[child])
         /\ LastWord(inbox[child], chan.token) => LastWord(inbox'[child], chan.token)
    <3>1. CASE inbox'[child] = inbox[child]
      BY <3>1
    <3>2. CASE inbox'[child] = Append(inbox[child], f)
      BY <2>4, <2>5, <2>6, <3>2, PostedLast
    <3> QED BY <2>9, <3>1, <3>2
  <2>11. \A x \in ExecFrames(inbox'[child]) : Awaited(x)'
    <3>1. \A x \in ExecFrames(inbox[child]) : x.id \in Held(child)
      BY DEF Held, HoldsOf
    <3> QED BY <2>7, <2>8, <2>10, <3>1
  <2>12. \A j \in Entries(jobs[child]) : Awaited(j)'
    BY <2>7 DEF Held, HoldsOf
  <2>13. chan'.acked => chan'.sent
    BY DEF BlockInv
  <2> QED BY <1>1, <2>2, <2>5, <2>10, <2>11, <2>12, <2>13 DEF Ready
<1>10. CASE Turns
  <2>1. ~chan'.set /\ ~chan'.sent /\ ~chan'.acked /\ pending' = {}
    BY <1>10 DEF Turns, NoSnapshot
  <2> QED BY <1>5, <2>1 DEF Ready, AckSeen
<1>11. CASE Respawns
  <2>1. ~chan'.sent /\ ~chan'.acked /\ pending' = {}
    BY <1>11 DEF Respawns
  <2>2. PICK box \in {<<Frame("init", 0, 0, 0)>>,
                      <<Frame("init", 0, 0, 0), Frame("beginBlock", 0, 0, 0)>>} :
          child' = gen + 1 /\ inbox' = [inbox EXCEPT ![gen + 1] = box]
    BY <1>1, <1>11 DEF Respawns, Forks, Latches
  <2>3. Entries(outbox'[child']) = {}
    <3>1. gen + 1 \in Workers /\ gen + 1 > gen
      BY <1>1, <2>2
    <3> QED BY <2>2, <3>1 DEF Silence
  <2>4. inbox'[child'] = box
    BY <1>1, <2>2
  <2>5. \A f \in Entries(inbox'[child']) : f.type # "snapshot"
    BY <2>4, FreshBox
  <2> QED BY <1>5, <2>1, <2>3, <2>5 DEF Ready, AckSeen
<1> QED BY <1>6, <1>7, <1>8, <1>9, <1>10, <1>11 DEF Steered, Steers

\* The snapshot in place through a step of a worker.
LEMMA WorkerAck ==
    ASSUME Wires, child \in Workers \cup {NoChild}, AckInv, NEW w \in Workers, Heeds(w),
           UNCHANGED <<child, chan, pending>>
    PROVE  AckInv'
<1> SUFFICES ASSUME child # NoChild, Alive(child)'
             PROVE  Ready(child)'
  BY DEF AckInv, Ready
<1>1. /\ child \in Workers /\ inbox \in [Workers -> Seq(Frames)] /\ inbox[child] \in Seq(Frames)
      /\ child' = child /\ chan' = chan
  BY DEF Wires
<1>2. \A x : Awaited(x)' = Awaited(x)
  BY DEF Awaited
<1>3. CASE child # w
  <2>1. /\ inbox'[child] = inbox[child] /\ outbox'[child] = outbox[child]
        /\ jobs'[child] = jobs[child] /\ wsnap'[child] = wsnap[child]
        /\ wstate'[child] = wstate[child]
    BY <1>1, <1>3 DEF Heeds
  <2>2. Ready(child)
    BY <2>1 DEF AckInv, Ready, Alive
  <2>3. AckSeen' = AckSeen
    BY <1>1, <2>1 DEF AckSeen
  <2> QED BY <1>1, <1>2, <2>1, <2>2, <2>3 DEF Ready
<1>4. CASE child = w
  <2>1. Ready(w)
    BY <1>4 DEF Heeds, AckInv, Ready
  <2>2. Took(w) =>
          /\ inbox'[w] = Tail(inbox[w]) /\ Head(inbox[w]) \in Entries(inbox[w])
          /\ Entries(inbox'[w]) \subseteq Entries(inbox[w])
          /\ ExecFrames(inbox'[w]) \subseteq ExecFrames(inbox[w])
          /\ Steady(inbox[w]) => Undisturbed(Head(inbox[w])) /\ Steady(inbox'[w])
          /\ LastWord(inbox[w], chan.token) => LastWord(inbox'[w], chan.token)
          /\ LastWord(inbox[w], chan.token) /\ Head(inbox[w]).type = "snapshot"
               /\ Head(inbox[w]).ref = chan.token => Steady(inbox'[w])
    <3> SUFFICES ASSUME Took(w)
                 PROVE  /\ inbox'[w] = Tail(inbox[w]) /\ Head(inbox[w]) \in Entries(inbox[w])
                        /\ Entries(inbox'[w]) \subseteq Entries(inbox[w])
                        /\ ExecFrames(inbox'[w]) \subseteq ExecFrames(inbox[w])
                        /\ Steady(inbox[w]) => Undisturbed(Head(inbox[w])) /\ Steady(inbox'[w])
                        /\ LastWord(inbox[w], chan.token) => LastWord(inbox'[w], chan.token)
                        /\ LastWord(inbox[w], chan.token) /\ Head(inbox[w]).type = "snapshot"
                             /\ Head(inbox[w]).ref = chan.token => Steady(inbox'[w])
      OBVIOUS
    <3>1. inbox[w] \in Seq(Frames) /\ inbox[w] # <<>> /\ inbox'[w] = Tail(inbox[w])
      BY <1>1, <1>4 DEF Took
    <3> QED BY <3>1, TakenFirst
  <2>3. inbox' = inbox \/ Took(w)
    BY <1>1, <1>4 DEF Heeds, Takes, Drops, Passes
  <2>4. /\ Entries(inbox'[w]) \subseteq Entries(inbox[w])
        /\ ExecFrames(inbox'[w]) \subseteq ExecFrames(inbox[w])
        /\ LastWord(inbox[w], chan.token) => LastWord(inbox'[w], chan.token)
    BY <2>2, <2>3
  <2>5. \A f \in ExecFrames(inbox'[w]) : Awaited(f)'
    BY <1>2, <2>1, <2>4 DEF Ready
  <2>6. \A j \in Entries(jobs'[w]) : Awaited(j)'
    <3> SUFFICES ASSUME NEW j \in Entries(jobs'[w]) PROVE Awaited(j)'
      OBVIOUS
    <3>1. PICK x \in Loads(w) : Alike(x, j)
      BY DEF Heeds
    <3>2. Awaited(x)
      BY <2>1 DEF Ready, Loads
    <3>3. Awaited(j)
      BY <3>1, <3>2 DEF Awaited, Alike
    <3> QED BY <1>2, <3>3
  <2>7. chan.sent => LastWord(inbox'[w], chan.token)
    BY <2>1, <2>4 DEF Ready
  <2>8. /\ chan.acked \/ AckSeen => wsnap[w].token = chan.token /\ Steady(inbox[w])
        /\ chan.sent => LastWord(inbox[w], chan.token)
        /\ chan.set /\ ~chan.sent =>
             /\ \A r \in Entries(outbox[w]) : r.type # "snapshotAck"
             /\ \A f \in Entries(inbox[w]) : f.type # "snapshot"
    BY <2>1 DEF Ready
  <2>9. /\ AckSeen' <=> \E r \in Entries(outbox'[w]) :
                            r.type = "snapshotAck" /\ chan.sent /\ r.tok = chan.token
        /\ AckSeen <=> \E r \in Entries(outbox[w]) :
                           r.type = "snapshotAck" /\ chan.sent /\ r.tok = chan.token
    BY <1>1, <1>4 DEF AckSeen
  <2> DEFINE InPlace == chan.acked \/ AckSeen' => wsnap'[w].token = chan.token /\ Steady(inbox'[w])
             Clear == chan.set /\ ~chan.sent =>
                        /\ \A r \in Entries(outbox'[w]) : r.type # "snapshotAck"
                        /\ \A f \in Entries(inbox'[w]) : f.type # "snapshot"
  <2>10. ASSUME Takes(w) PROVE InPlace /\ Clear
    <3> DEFINE f == Head(inbox[w])
    <3>1. /\ Took(w) /\ f.type = "snapshot" /\ wsnap'[w].token = f.ref
          /\ Entries(outbox'[w]) = Entries(outbox[w]) \cup {Reply("snapshotAck", 0, f.ref)}
      BY <2>10 DEF Takes
    <3>2. ~Steady(inbox[w]) /\ f \in Entries(inbox[w])
      BY <2>2, <3>1 DEF Undisturbed
    <3>3. ~chan.acked /\ ~AckSeen
      BY <2>8, <3>2
    <3>4. Clear
      BY <2>8, <3>1, <3>2
    <3> DEFINE r0 == Reply("snapshotAck", 0, f.ref)
    <3>5. r0.tok = f.ref
      BY DEF Reply
    <3> HIDE DEF f, r0
    <3>6. AckSeen' => chan.sent /\ f.ref = chan.token
      <4> SUFFICES ASSUME NEW r \in Entries(outbox'[w]),
                          r.type = "snapshotAck", chan.sent, r.tok = chan.token
                   PROVE  f.ref = chan.token
        BY <2>9
      <4>1. r \notin Entries(outbox[w])
        BY <2>9, <3>3
      <4>2. r = r0
        BY <3>1, <4>1 DEF r0, f
      <4> QED BY <3>5, <4>2
    <3>7. chan.sent /\ f.ref = chan.token => Steady(inbox'[w])
      BY <2>2, <2>8, <3>1 DEF f
    <3>8. InPlace
      BY <3>1, <3>3, <3>6, <3>7 DEF f
    <3> QED BY <3>4, <3>8
  <2>11. ASSUME Drops(w) PROVE InPlace /\ Clear
    <3>1. Took(w) /\ Head(inbox[w]).type = "endBlock" /\ outbox' = outbox
      BY <1>4, <2>11 DEF Drops
    <3>2. ~Steady(inbox[w])
      BY <2>2, <3>1 DEF Undisturbed
    <3>3. ~chan.acked /\ ~AckSeen'
      BY <2>8, <2>9, <3>1, <3>2
    <3>4. Clear
      BY <2>4, <2>8, <3>1
    <3> QED BY <3>3, <3>4
  <2>12. ASSUME Passes(w) PROVE InPlace /\ Clear
    <3>1. /\ wsnap' = wsnap
          /\ \A r \in Entries(outbox'[w]) : r.type = "snapshotAck" => r \in Entries(outbox[w])
      BY <2>12 DEF Passes
    <3>2. AckSeen' => AckSeen
      BY <2>9, <3>1
    <3>3. Steady(inbox[w]) => Steady(inbox'[w])
      BY <2>2, <2>3
    <3>4. InPlace
      BY <2>8, <3>1, <3>2, <3>3
    <3>5. Clear
      BY <2>4, <2>8, <3>1
    <3> QED BY <3>4, <3>5
  <2>13. InPlace /\ Clear
    BY <2>10, <2>11, <2>12 DEF Heeds
  <2> QED BY <1>1, <1>4, <2>5, <2>6, <2>7, <2>13 DEF Ready
<1> QED BY <1>3, <1>4

(***************************************************************************)
(* The invariant, and what follows.                                        *)
(***************************************************************************)
\* Nothing has been sent but the init frame.
LEMMA InitSnap == Init => SnapInv
<1> SUFFICES ASSUME Init PROVE SnapInv
  OBVIOUS
<1> USE WorkerAssumption, ExecutorAssumption
<1>1. /\ \A w \in Workers : outbox[w] = <<>> /\ jobs[w] = <<>> /\ wsnap[w].token = NoToken
      /\ pending = {} /\ nextTok = 1 /\ ran = <<>>
      /\ ~chan.set /\ ~chan.sent /\ ~chan.acked
      /\ \A i \in Requests : outcome[i] = "none"
      /\ inbox = [w \in Workers |-> IF w = child THEN <<Frame("init", 0, 0, 0)>> ELSE <<>>]
  BY DEF Init, ExecutorInit, IPCInit, WorkerInit, NoSnapshot, NoWorkerSnapshot
<1>2. Entries(<<>>) = {} /\ Len(<<>>) = 0
  BY DEF Entries
<1>3. \A w \in Workers : \A f \in Entries(inbox[w]) : f.type = "init"
  <2> SUFFICES ASSUME NEW w \in Workers, NEW f \in Entries(inbox[w]) PROVE f.type = "init"
    OBVIOUS
  <2>1. CASE w = child
    <3>1. inbox[w] = <<Frame("init", 0, 0, 0)>>
      BY <1>1, <2>1
    <3>2. f = Frame("init", 0, 0, 0)
      BY <3>1 DEF Entries
    <3> QED BY <3>2 DEF Frame
  <2>2. CASE w # child
    BY <1>1, <1>2, <2>2
  <2> QED BY <2>1, <2>2
<1>4. BlockInv
  BY <1>1 DEF BlockInv
<1>5. \A V : TokenInv(V)
  <2> SUFFICES ASSUME NEW V PROVE TokenInv(V)
    OBVIOUS
  <2>1. \A w \in Workers : Entries(jobs[w]) = {} /\ Entries(outbox[w]) = {}
    BY <1>1, <1>2
  <2>2. RanOnItsSnapshot
    BY <1>1, <1>2 DEF RanOnItsSnapshot
  <2>3. \A w \in Workers : \A f \in Entries(inbox[w]) : Meant(V, nextTok, opts, f)
    BY <1>3 DEF Meant
  <2>4. nextTok > 0
    BY <1>1
  <2> QED BY <1>1, <2>1, <2>2, <2>3, <2>4 DEF TokenInv
<1>6. AckInv
  BY <1>1 DEF AckInv, AckSeen, Awaited
<1>7. Silence
  BY <1>1, <1>2 DEF Silence
<1>8. \E V : V \in [Nat -> Nat]
  <2>1. [n \in Nat |-> 0] \in [Nat -> Nat]
    OBVIOUS
  <2> QED BY <2>1
<1> QED BY <1>4, <1>5, <1>6, <1>7, <1>8 DEF SnapInv

\* Every step keeps the invariant.
LEMMA NextSnap ==
    ASSUME CallerAwaits
    PROVE  ExecutorInv /\ ExecutorInv' /\ CallsInv /\ CallsInv' /\ SnapInv /\ [Next]_vars => SnapInv'
<1> SUFFICES ASSUME ExecutorInv, ExecutorInv', CallsInv, CallsInv', SnapInv, [Next]_vars
             PROVE  SnapInv'
  OBVIOUS
<1>1. /\ TypeOK /\ TypeOK' /\ Wires /\ Wires' /\ GateInv /\ HoldInv /\ OrderInv
      /\ BlockInv /\ AckInv /\ Silence
  BY DEF ExecutorInv, CallsInv, SnapInv
<1>2. PICK V \in [Nat -> Nat] : TokenInv(V)
  BY DEF SnapInv
<1>3. nextTok \in Nat /\ child \in Workers \cup {NoChild} /\ gen \in Nat
  <2>1. gen \in 0..MaxWorkers
    BY <1>1 DEF TypeOK
  <2>2. gen \in Nat
    BY <2>1, WorkerAssumption
  <2> QED BY <1>1, <2>2 DEF TypeOK
<1>4. CASE UNCHANGED vars
  <2>1. /\ UNCHANGED <<inbox, outbox, jobs, wsnap, ran, child, gen, pending, chan, nextTok,
                       wstate, blockNo, outcome, opts>>
    BY <1>4 DEF vars, executorVars, ipcVars, workerVars, promiseVars, slotVars, chanVars, blockVars
  <2>2. BlockInv' /\ Silence'
    BY <1>1, <2>1 DEF BlockInv, Silence
  <2>3. TokenInv(V)'
    BY <1>2, <2>1 DEF TokenInv, Meant, Carries, RanOnItsSnapshot
  <2>4. AckInv'
    BY <1>1, <2>1 DEF AckInv, AckSeen, Awaited, Alive
  <2> QED BY <2>2, <2>3, <2>4 DEF SnapInv
<1>5. ASSUME NEW w \in Workers, Worker(w) PROVE SnapInv'
  <2>1. Heeds(w)
    BY <1>1, <1>5, WorkerHeeds DEF HoldInv
  <2>2. UNCHANGED <<child, gen, pending, chan, nextTok, blockNo, outcome, opts>>
    BY <1>5 DEF Worker, executorVars, promiseVars, slotVars, chanVars, blockVars
  <2>3. BlockInv'
    BY <1>1, <2>2 DEF BlockInv
  <2>4. TokenInv(V)'
    BY <1>1, <1>2, <1>3, <2>1, <2>2, WorkerTokens
  <2>5. AckInv'
    BY <1>1, <1>3, <2>1, <2>2, WorkerAck
  <2>6. Silence'
    <3>1. ~(w > gen)
      BY <1>1, <2>1 DEF Heeds, GateInv, Alive
    <3> QED BY <1>1, <2>1, <2>2, <3>1 DEF Silence, Heeds
  <2> QED BY <2>3, <2>4, <2>5, <2>6 DEF SnapInv
<1>6. CASE Executor
  <2>1. Accounts /\ (Serves \/ Dooms \/ Replaces \/ Leaves)
    BY <1>1, <1>6, ExecutorShape DEF ExecutorInv
  <2>2. Steered
    BY <1>1, <1>6, ExecutorSteers
  <2>3. UNCHANGED workerVars /\ \A w \in Workers : Entries(outbox'[w]) \subseteq Entries(outbox[w])
    BY <1>6, <2>1 DEF Executor, Accounts
  <2>4. BlockInv'
    BY <1>1, <2>2, ExecutorBlock
  <2>5. \E U \in [Nat -> Nat] : TokenInv(U)'
    BY <1>1, <1>2, <2>2, <2>3, ExecutorTokens
  <2>6. AckInv'
    BY <1>1, <1>2, <2>2, <2>3, <2>4, ExecutorAck
  <2>7. Silence'
    <3>1. gen' = gen \/ gen' = gen + 1
      BY <2>1 DEF Serves, Dooms, Replaces, Leaves, Forks, Latches
    <3>2. \A w \in Workers : w > gen' => w > gen
      BY <1>3, <3>1 DEF Workers
    <3> QED BY <1>1, <2>3, <3>2 DEF Silence
  <2> QED BY <2>4, <2>5, <2>6, <2>7 DEF SnapInv
<1> QED BY <1>4, <1>5, <1>6 DEF Next

\* The three invariants hold in every reachable state.
LEMMA SnapHolds == ASSUME CallerAwaits PROVE Spec => [](ExecutorInv /\ CallsInv /\ SnapInv)
<1>1. Init => ExecutorInv /\ CallsInv /\ SnapInv
  BY InitInv, InitCalls, InitSnap
<1>2. ExecutorInv /\ CallsInv /\ SnapInv /\ [Next]_vars => (ExecutorInv /\ CallsInv /\ SnapInv)'
  BY NextInv, NextCalls, NextSnap
<1> QED BY <1>1, <1>2, PTL DEF Spec

\* A contract sees the cross-chain snapshot its own call carried, inline or by
\* reference, whatever happened to the workers that had been sent it, when callers
\* settle a block's calls before they end it (flush(), hold() and reference() of
\* snapshot_channel.js, resolveWorkerCrossChainSnapshot() of vm-worker.js).
THEOREM RunsOnItsSnapshot == ASSUME CallerAwaits PROVE Spec => []RanOnItsSnapshot
<1>1. SnapInv => RanOnItsSnapshot
  BY DEF SnapInv, TokenInv
<1> QED BY <1>1, SnapHolds, PTL

\* The reference of a call in flight resolves in its worker: hold() kept the call
\* back until that worker had acknowledged the snapshot, and nothing in the
\* worker's inbox replaces the snapshot before the call resolves it.
THEOREM ReferencesAlwaysResolve == ASSUME CallerAwaits PROVE Spec => []ReferencesResolve
<1>1. ExecutorInv /\ CallsInv /\ SnapInv => ReferencesResolve
  <2> SUFFICES ASSUME ExecutorInv, CallsInv, SnapInv, NEW w \in Workers,
                      AtHead(w, "chained"), Head(jobs[w]).id \in pending
               PROVE  Resolves(w, Head(jobs[w]))
    BY DEF ReferencesResolve
  <2> DEFINE j == Head(jobs[w])
  <2>1. /\ TypeOK /\ Wires /\ HoldInv /\ GateInv /\ WaitingIsTracked /\ AckInv /\ BlockInv
    BY DEF ExecutorInv, CallsInv, SnapInv
  <2>2. jobs[w] \in Seq(Jobs) /\ jobs[w] # <<>> /\ wstate[w] = "up"
    BY <2>1 DEF Wires, AtHead
  <2>3. j \in Entries(jobs[w])
    BY <2>2, TakeFirst
  <2>4. j.id \in Held(w)
    BY <2>3 DEF Held, HoldsOf
  <2>5. child # NoChild
    <3>1. ~Quiet
      BY <2>1 DEF TypeOK, WaitingIsTracked, Tracked, Quiet
    <3> QED BY <2>1, <3>1 DEF WaitingIsTracked
  <2>6. w = child
    BY <2>1, <2>4, <2>5 DEF HoldInv
  <2>7. Awaited(j) /\ (chan.acked => wsnap[w].token = chan.token)
    BY <2>1, <2>2, <2>3, <2>5, <2>6 DEF AckInv, Alive
  <2> QED BY <2>7 DEF Awaited, Resolves
<1> QED BY <1>1, SnapHolds, PTL

=============================================================================
