---------------------------- MODULE SimulatorProofs ----------------------------
(***************************************************************************)
(* What the simulator of the toolkit promises, for any authors, sources,   *)
(* contracts, heights and numbers of tasks, seeds and lost workers: the    *)
(* committed state of a contract, the verdict of a deploy, the seeds a run *)
(* sees, and the rules it runs by.                                         *)
(***************************************************************************)
EXTENDS Simulator, SimulatorEpoch, SimulatorSeeds, ListLemmas, FiniteSetTheorems, SequenceTheorems, TLAPS


(***************************************************************************)
(* The invariant.                                                          *)
(***************************************************************************)
Elems(s)    == {s[i] : i \in DOMAIN s}
Distinct(s) == \A i, j \in DOMAIN s : s[i] = s[j] => i = j

Sources == (UNION {a.sources : a \in Authors}) \cup {"none"}

TaskRec ==
    [kind : {"deploy", "call"}, index : Indexes, op : Ops \cup {"add"}, leg : {"run", "manifest"},
     at : {"waiting", "inflight", "settled", "done"}, obj : Nat,
     source : Sources, params : BOOLEAN, init : BOOLEAN,
     read : SUBSET Nat, seen : Nat, called : Nat, floor : Nat,
     outcome : {"none", "ok", "failed", "rejected"},
     verdict : {"none", "lint", "host", "valid", "policy", "meta", "constructor"},
     blocks : SUBSET Nat]

ObjectRec ==
    [source : Sources, state : SUBSET Nat,
     serial : SUBSET Nat, overlapped : BOOLEAN]

Typed ==
    /\ author \in Authors /\ mode \in Modes
    /\ {block, seeds, blockSeeds, crashes, inflight} \subseteq Nat
    /\ snapshot \in Nat \cup {Unset}
    /\ objects \in Seq(ObjectRec) /\ tasks \in Seq(TaskRec)
    /\ queue \in Seq(Nat) /\ settled \in Seq(Nat)
    /\ contracts \in [Indexes -> 0 .. Len(objects)]

\* Every task is in the one place its "at" says, once: the queue, the worker or
\* the continuations that are due; and each stage has the outcomes it may have.
Placed ==
    /\ Distinct(queue) /\ Distinct(settled)
    /\ \A id \in Elems(queue) : id \in DOMAIN tasks /\ tasks[id].at = "waiting"
    /\ inflight # 0 => inflight \in DOMAIN tasks /\ tasks[inflight].at = "inflight"
    /\ Elems(settled) \subseteq DOMAIN tasks
    /\ mode = "in-process" => queue = <<>> /\ inflight = 0
    /\ \A id \in DOMAIN tasks :
         /\ tasks[id].at = "inflight" => id = inflight
         /\ tasks[id].at = "settled" <=> id \in Elems(settled)
         /\ tasks[id].at \in {"waiting", "inflight"} => tasks[id].outcome = "none"
         /\ tasks[id].leg = "run" => tasks[id].obj \in DOMAIN objects
         /\ tasks[id].leg = "manifest" => tasks[id].kind = "deploy" /\ tasks[id].at # "done"

\* The task is a successful run of the object, in a list of tasks.
Good(list, o, id) ==
    id \in DOMAIN list /\ list[id].leg = "run" /\ list[id].obj = o /\ list[id].outcome = "ok"

\* Whatever a state, its history or a run's copy of a state holds, successful runs
\* of that object put there.
OwnEffects ==
    /\ \A o \in DOMAIN objects : \A id \in objects[o].state \cup objects[o].serial : Good(tasks, o, id)
    /\ \A t \in DOMAIN tasks : \A id \in tasks[t].read : tasks[t].leg = "run" /\ Good(tasks, tasks[t].obj, id)

\* A run of the object that has read its state and may still write it.
Live(list, o, t) ==
    /\ list[t].leg = "run" /\ list[t].obj = o
    /\ list[t].at = "inflight" \/ (list[t].at = "settled" /\ list[t].outcome = "ok")

\* One run at most is live, what it read is what the object holds, and the history is
\* ahead of the state by its effect and by no other.
Turn(list, ob, o) ==
    /\ \A t, u \in DOMAIN list : Live(list, o, t) /\ Live(list, o, u) => t = u
    /\ \A t \in DOMAIN list : Live(list, o, t) =>
         /\ list[t].read = ob.state
         /\ ob.serial = IF list[t].at = "settled" THEN Apply(list[t].op, t, ob.state) ELSE ob.state
    /\ (\A t \in DOMAIN list : ~Live(list, o, t)) => ob.serial = ob.state

\* It is so until a run of the object overlaps another.
InTurn == \A o \in DOMAIN objects : ~objects[o].overlapped => Turn(tasks, objects[o], o)

\* An author who awaits has one task under way, so no run of theirs overlaps another.
OneByOne ==
    author.awaits =>
        /\ \A t, u \in DOMAIN tasks : tasks[t].at # "done" /\ tasks[u].at # "done" => t = u
        /\ \A o \in DOMAIN objects : ~objects[o].overlapped

\* The constructor of a source is run in block b.
Constructs(d, b) == d.params \/ (b >= StrictFrom /\ d.source.reads /\ d.source.init)

\* What the gate has concluded so far is what the chain will have concluded by then,
\* of a deploy of one of the author's sources when no worker was lost.
JudgedSoFar(d, sources, lost) ==
    /\ d.source \in sources
    /\ d.leg = "manifest" =>
         /\ d.verdict = "valid" /\ ~d.init
         /\ d.blocks # {} /\ \A b \in d.blocks : d.blocks = {b} /\ b < d.source.bannedFrom
         /\ d.at = "settled" /\ d.outcome # "rejected" /\ lost = 0 =>
              (d.outcome = "ok" <=> d.source.reads)
    /\ d.leg = "run" /\ d.verdict # "host" /\ lost = 0 =>
         \A b \in d.blocks : d.blocks = {b} =>
           /\ d.at # "done" => /\ d.verdict = ChainVerdict(d.source, d.params, b, "none")
                               /\ d.verdict = "valid" => Constructs(d, b)
           /\ d.at = "done" /\ d.outcome # "rejected" =>
                d.verdict = ChainVerdict(d.source, d.params, b, d.outcome)

Verdicts == \A t \in DOMAIN tasks : tasks[t].kind = "deploy" => JudgedSoFar(tasks[t], author.sources, crashes)

\* No copy of the seeds is older than its block, and a run that has not read them
\* has no count of them but that of its creation.
Seeding ==
    /\ blockSeeds <= seeds
    /\ snapshot # Unset => blockSeeds <= snapshot /\ snapshot <= seeds
    /\ \A t \in DOMAIN tasks :
         /\ tasks[t].called <= seeds
         /\ tasks[t].leg = "manifest" \/ tasks[t].at = "waiting" =>
              tasks[t].seen = tasks[t].called /\ tasks[t].floor = 0
    /\ SeedsVisible

SimInv == Typed /\ Placed /\ OwnEffects /\ InTurn /\ OneByOne /\ Verdicts /\ Seeding
-------------------------------------------------------------------------------
(***************************************************************************)
(* Sequences without repetition.                                           *)
(***************************************************************************)
\* What the elements of a longer sequence are.
LEMMA AppendElems ==
  ASSUME NEW S, NEW s \in Seq(S), NEW x \in S
  PROVE  /\ Append(s, x) \in Seq(S)
         /\ Elems(Append(s, x)) = Elems(s) \cup {x}
         /\ Distinct(s) /\ x \notin Elems(s) => Distinct(Append(s, x))
<1>1. /\ Append(s, x) \in Seq(S) /\ Len(s) \in Nat
      /\ DOMAIN Append(s, x) = 1 .. Len(s) + 1 /\ DOMAIN s = 1 .. Len(s)
      /\ \A i \in 1 .. Len(s) : Append(s, x)[i] = s[i]
      /\ Append(s, x)[Len(s) + 1] = x
  BY AppendProperties, LenProperties
<1>2. \A i : i \in 1 .. Len(s) + 1 <=> i \in 1 .. Len(s) \/ i = Len(s) + 1
  BY <1>1
<1>3. \A y : y \in Elems(Append(s, x)) <=> y \in Elems(s) \/ y = x
  BY <1>1, <1>2 DEF Elems
<1>4. ASSUME Distinct(s), x \notin Elems(s) PROVE Distinct(Append(s, x))
  BY <1>1, <1>2, <1>4 DEF Distinct, Elems
<1> QED
  BY <1>1, <1>3, <1>4, Zenon

\* What is left of a sequence when its head is taken.
LEMMA TailElems ==
  ASSUME NEW S, NEW s \in Seq(S), s # <<>>
  PROVE  /\ Head(s) \in S /\ Tail(s) \in Seq(S) /\ Head(s) \in Elems(s)
         /\ Elems(Tail(s)) \subseteq Elems(s)
         /\ Distinct(s) => Distinct(Tail(s)) /\ Head(s) \notin Elems(Tail(s))
<1>1. /\ Head(s) \in S /\ Tail(s) \in Seq(S) /\ Len(Tail(s)) = Len(s) - 1 /\ Head(s) = s[1]
      /\ Len(s) \in Nat /\ Len(s) # 0 /\ DOMAIN s = 1 .. Len(s) /\ DOMAIN Tail(s) = 1 .. Len(s) - 1
      /\ \A i \in 1 .. Len(s) - 1 : Tail(s)[i] = s[i + 1]
  BY HeadTailProperties, EmptySeq, LenProperties
<1>2. \A i \in DOMAIN Tail(s) : i + 1 \in DOMAIN s /\ Tail(s)[i] = s[i + 1] /\ i + 1 # 1 /\ i \in Int
  BY <1>1
<1>3. 1 \in DOMAIN s
  BY <1>1
<1>4. Head(s) \in Elems(s) /\ Elems(Tail(s)) \subseteq Elems(s)
  BY <1>1, <1>2, <1>3 DEF Elems
<1>5. ASSUME Distinct(s) PROVE Distinct(Tail(s)) /\ Head(s) \notin Elems(Tail(s))
  <2>1. ASSUME NEW i \in DOMAIN Tail(s), NEW j \in DOMAIN Tail(s), Tail(s)[i] = Tail(s)[j]
        PROVE  i = j
    <3>1. i + 1 = j + 1
      BY <1>2, <1>5, <2>1 DEF Distinct
    <3> QED
      BY <1>2, <3>1
  <2>2. ASSUME NEW i \in DOMAIN Tail(s) PROVE Tail(s)[i] # Head(s)
    BY <1>1, <1>2, <1>3, <1>5 DEF Distinct
  <2> QED
    BY <2>1, <2>2 DEF Distinct, Elems
<1> QED
  BY <1>1, <1>4, <1>5

\* The elements of a concatenation.
LEMMA ConcatElems ==
  ASSUME NEW S, NEW s \in Seq(S), NEW t \in Seq(S)
  PROVE  /\ s \o t \in Seq(S)
         /\ Elems(s \o t) = Elems(s) \cup Elems(t)
         /\ Distinct(s) /\ Distinct(t) /\ Elems(s) \cap Elems(t) = {} => Distinct(s \o t)
<1>1. /\ s \o t \in Seq(S) /\ Len(s) \in Nat /\ Len(t) \in Nat
      /\ DOMAIN s = 1 .. Len(s) /\ DOMAIN t = 1 .. Len(t) /\ DOMAIN (s \o t) = 1 .. Len(s) + Len(t)
      /\ \A i \in 1 .. Len(s) + Len(t) : (s \o t)[i] = IF i <= Len(s) THEN s[i] ELSE t[i - Len(s)]
  BY ConcatProperties, LenProperties
<1>2. \A i \in DOMAIN (s \o t) :
         \/ i \in DOMAIN s /\ (s \o t)[i] = s[i]
         \/ i - Len(s) \in DOMAIN t /\ (s \o t)[i] = t[i - Len(s)] /\ i \in Int
  BY <1>1
<1>3. \A i \in DOMAIN s : i \in DOMAIN (s \o t) /\ (s \o t)[i] = s[i]
  BY <1>1
<1>4. \A i \in DOMAIN t : i + Len(s) \in DOMAIN (s \o t) /\ (s \o t)[i + Len(s)] = t[i]
  <2> TAKE i \in DOMAIN t
  <2>1. i \in 1 .. Len(t) /\ i + Len(s) \in 1 .. Len(s) + Len(t) /\ ~(i + Len(s) <= Len(s))
        /\ (i + Len(s)) - Len(s) = i
    BY <1>1
  <2> QED
    BY <1>1, <2>1
<1>5. Elems(s \o t) = Elems(s) \cup Elems(t)
  <2>1. ASSUME NEW x \in Elems(s \o t) PROVE x \in Elems(s) \cup Elems(t)
    BY <1>2 DEF Elems
  <2>2. Elems(s) \subseteq Elems(s \o t)
    BY <1>3 DEF Elems
  <2>3. Elems(t) \subseteq Elems(s \o t)
    BY <1>4 DEF Elems
  <2> QED
    BY <2>1, <2>2, <2>3
<1>6. ASSUME Distinct(s), Distinct(t), Elems(s) \cap Elems(t) = {} PROVE Distinct(s \o t)
  <2>1. ASSUME NEW i \in DOMAIN (s \o t), NEW j \in DOMAIN (s \o t), (s \o t)[i] = (s \o t)[j]
        PROVE  i = j
    <3>1. CASE i \in DOMAIN s /\ (s \o t)[i] = s[i] /\ j \in DOMAIN s /\ (s \o t)[j] = s[j]
      BY <1>6, <2>1, <3>1 DEF Distinct
    <3>2. CASE /\ i - Len(s) \in DOMAIN t /\ (s \o t)[i] = t[i - Len(s)] /\ i \in Int
               /\ j - Len(s) \in DOMAIN t /\ (s \o t)[j] = t[j - Len(s)] /\ j \in Int
      <4>1. i - Len(s) = j - Len(s)
        BY <1>6, <2>1, <3>2 DEF Distinct
      <4> QED
        BY <1>1, <3>2, <4>1
    <3>3. \A p \in DOMAIN s, q \in DOMAIN t : s[p] # t[q]
      BY <1>6 DEF Elems
    <3> QED
      BY <1>2, <2>1, <3>1, <3>2, <3>3
  <2> QED
    BY <2>1 DEF Distinct
<1> QED
  BY <1>1, <1>5, <1>6

\* A sequence without one of its elements.
LEMMA CutElems ==
  ASSUME NEW S, NEW s \in Seq(S), Distinct(s), NEW k \in DOMAIN s,
         NEW r, r = SubSeq(s, 1, k - 1) \o SubSeq(s, k + 1, Len(s))
  PROVE  r \in Seq(S) /\ Distinct(r) /\ Elems(r) = Elems(s) \ {s[k]}
<1>1. Len(s) \in Nat /\ DOMAIN s = 1 .. Len(s) /\ k \in 1 .. Len(s) /\ k \in Int
  BY LenProperties
<1> DEFINE u == SubSeq(s, 1, k - 1)
           v == SubSeq(s, k + 1, Len(s))
<1>2. \A i \in 1 .. Len(s) : s[i] \in S
  BY <1>1, ElementOfSeq
<1>3. u \in Seq(S) /\ Len(u) = k - 1 /\ \A i \in 1 .. k - 1 : u[i] = s[i]
  BY <1>1, <1>2, SubSeqProperties
<1>4. v \in Seq(S) /\ Len(v) = Len(s) - k /\ \A i \in 1 .. Len(s) - k : v[i] = s[i + k]
  <2>1. /\ k + 1 \in Int /\ Len(s) \in Int
        /\ \A i \in (k + 1) .. Len(s) : s[i] \in S
    BY <1>1, <1>2
  <2>2. /\ v \in Seq(S) /\ Len(v) = IF k + 1 <= Len(s) THEN Len(s) - (k + 1) + 1 ELSE 0
        /\ \A i \in 1 .. Len(s) - (k + 1) + 1 : v[i] = s[(k + 1) + i - 1]
    BY <2>1, SubSeqProperties
  <2>3. Len(v) = Len(s) - k /\ Len(s) - (k + 1) + 1 = Len(s) - k
    BY <1>1, <2>2
  <2>4. \A i \in 1 .. Len(s) - k : (k + 1) + i - 1 = i + k
    BY <1>1
  <2> QED
    BY <2>2, <2>3, <2>4
<1>5. DOMAIN u = 1 .. k - 1 /\ DOMAIN v = 1 .. Len(s) - k
  BY <1>3, <1>4, LenProperties
<1> HIDE DEF u, v
<1>6. \A i \in DOMAIN u : i \in DOMAIN s /\ u[i] = s[i] /\ i < k
  BY <1>1, <1>3, <1>5
<1>7. \A i \in DOMAIN v : i + k \in DOMAIN s /\ v[i] = s[i + k] /\ i + k > k /\ i \in Int
  <2> TAKE i \in DOMAIN v
  <2>1. i \in 1 .. Len(s) - k
    BY <1>5
  <2>2. i \in Int /\ i + k \in 1 .. Len(s) /\ i + k > k
    BY <1>1, <2>1
  <2> QED
    BY <1>1, <1>4, <2>1, <2>2
<1>8. \A i \in DOMAIN s : i = k \/ (i \in DOMAIN u /\ u[i] = s[i])
                            \/ (i - k \in DOMAIN v /\ v[i - k] = s[i])
  <2> TAKE i \in DOMAIN s
  <2>1. CASE i < k
    BY <1>1, <1>3, <1>5, <2>1
  <2>2. CASE i > k
    <3>1. i - k \in 1 .. Len(s) - k /\ (i - k) + k = i
      BY <1>1, <2>2
    <3> QED
      BY <1>4, <1>5, <3>1
  <2> QED
    BY <1>1, <2>1, <2>2
<1>9. Distinct(u)
  BY <1>6 DEF Distinct
<1>10. Distinct(v)
  <2>1. ASSUME NEW i \in DOMAIN v, NEW j \in DOMAIN v, v[i] = v[j] PROVE i = j
    <3>1. i + k = j + k
      BY <1>7, <2>1 DEF Distinct
    <3> QED
      BY <1>1, <1>7, <3>1
  <2> QED
    BY <2>1 DEF Distinct
<1>11. ASSUME NEW x \in Elems(u), x \in Elems(v) PROVE FALSE
  <2>1. PICK i \in DOMAIN u : x = u[i]
    BY DEF Elems
  <2>2. PICK j \in DOMAIN v : x = v[j]
    BY <1>11 DEF Elems
  <2>3. i \in DOMAIN s /\ j + k \in DOMAIN s /\ s[i] = s[j + k]
    BY <1>6, <1>7, <2>1, <2>2
  <2>4. i = j + k
    BY <2>3 DEF Distinct
  <2> QED
    BY <1>1, <1>6, <1>7, <2>4
<1>12. r \in Seq(S) /\ Distinct(r) /\ Elems(r) = Elems(u) \cup Elems(v)
  <2>1. Elems(u) \cap Elems(v) = {}
    BY <1>11
  <2>2. r = u \o v
    BY DEF u, v
  <2>3. /\ u \o v \in Seq(S) /\ Elems(u \o v) = Elems(u) \cup Elems(v)
        /\ Distinct(u) /\ Distinct(v) /\ Elems(u) \cap Elems(v) = {} => Distinct(u \o v)
    BY <1>3, <1>4, ConcatElems
  <2> QED
    BY <1>9, <1>10, <2>1, <2>2, <2>3
<1>13. Elems(u) \cup Elems(v) \subseteq Elems(s) \ {s[k]}
  <2>1. \A i \in DOMAIN u : u[i] \in Elems(s) /\ u[i] # s[k]
    <3> TAKE i \in DOMAIN u
    <3>1. i \in DOMAIN s /\ u[i] = s[i] /\ i # k
      BY <1>1, <1>6
    <3> QED
      BY <3>1 DEF Elems, Distinct
  <2>2. \A i \in DOMAIN v : v[i] \in Elems(s) /\ v[i] # s[k]
    BY <1>1, <1>7 DEF Elems, Distinct
  <2> QED
    BY <2>1, <2>2 DEF Elems
<1>14. Elems(s) \ {s[k]} \subseteq Elems(u) \cup Elems(v)
  BY <1>8 DEF Elems
<1> QED
  BY <1>12, <1>13, <1>14
-------------------------------------------------------------------------------
(***************************************************************************)
(* What the steps of an execution do to tasks and objects.                 *)
(***************************************************************************)
\* An earlier run of the task's object has settled well and is not committed.
Overlaps(t) ==
    \E i \in Elems(settled) :
        tasks[i].leg = "run" /\ tasks[i].obj = t.obj /\ tasks[i].outcome = "ok"

\* An object with nothing done to it but a mark and one more run in its history.
Marked(ob, objs, t, id, outcome) ==
    /\ ob \in Seq(ObjectRec) /\ DOMAIN ob = DOMAIN objs /\ Len(ob) = Len(objs)
    /\ \A o \in DOMAIN objs :
         /\ ob[o].state = objs[o].state
         /\ ob[o].overlapped => objs[o].overlapped \/ (t.leg = "run" /\ o = t.obj /\ Overlaps(t))
         /\ ~ob[o].overlapped => ~objs[o].overlapped /\ ~(t.leg = "run" /\ o = t.obj /\ Overlaps(t))
         /\ ob[o].serial = IF t.leg = "run" /\ o = t.obj /\ outcome = "ok"
                           THEN Apply(t.op, id, objs[o].serial) ELSE objs[o].serial

\* Applying a run's operation to a set of runs gives a set of runs.
LEMMA ApplyType ==
  ASSUME NEW op, NEW id \in Nat, NEW state \in SUBSET Nat
  PROVE  Apply(op, id, state) \in SUBSET Nat
  BY DEF Apply

\* Reading a state marks it, and that alone.
LEMMA MarkReadShape ==
  ASSUME Typed, NEW objs \in Seq(ObjectRec), NEW t \in TaskRec, NEW id,
         t.leg = "run" => t.obj \in DOMAIN objs
  PROVE  Marked(MarkRead(objs, t), objs, t, id, "none")
<1> DEFINE flagged == t.leg = "run" /\ Overlaps(t)
           ob == MarkRead(objs, t)
<1>1. flagged <=> t.leg = "run" /\ \E i \in DOMAIN settled :
                     LET other == tasks[settled[i]]
                     IN  other.leg = "run" /\ other.obj = t.obj /\ other.outcome = "ok"
  BY DEF Overlaps, Elems
<1>2. ob = IF flagged THEN [objs EXCEPT ![t.obj].overlapped = TRUE] ELSE objs
  BY <1>1 DEF MarkRead
<1> HIDE DEF flagged, ob
<1>3. DOMAIN objs = 1 .. Len(objs) /\ Len(objs) \in Nat /\ \A o \in DOMAIN objs : objs[o] \in ObjectRec
  BY ElementOfSeq, LenProperties
<1>4. ASSUME ~flagged PROVE Marked(ob, objs, t, id, "none")
  <2>1. ob = objs
    BY <1>2, <1>4
  <2> QED
    BY <1>4, <2>1 DEF Marked, flagged
<1>5. ASSUME flagged PROVE Marked(ob, objs, t, id, "none")
  <2>1. t.obj \in DOMAIN objs /\ ob = [objs EXCEPT ![t.obj].overlapped = TRUE]
    BY <1>2, <1>5 DEF flagged
  <2>2. [objs[t.obj] EXCEPT !.overlapped = TRUE] \in ObjectRec
    BY <1>3, <2>1 DEF ObjectRec
  <2>3. ob \in Seq(ObjectRec) /\ DOMAIN ob = DOMAIN objs /\ Len(ob) = Len(objs)
    BY <1>3, <2>1, <2>2
  <2>4. ob[t.obj] = [objs[t.obj] EXCEPT !.overlapped = TRUE]
    BY <2>1
  <2>5. \A o \in DOMAIN objs : o # t.obj => ob[o] = objs[o]
    BY <2>1
  <2>6. /\ ob[t.obj].state = objs[t.obj].state /\ ob[t.obj].serial = objs[t.obj].serial
        /\ ob[t.obj].overlapped
    BY <1>3, <2>1, <2>2, <2>4 DEF ObjectRec
  <2> QED
    BY <1>5, <2>3, <2>5, <2>6 DEF Marked, flagged
<1> QED
  BY <1>4, <1>5 DEF ob

\* A run that ends well is added to the history of its object.
LEMMA MarkEndShape ==
  ASSUME Typed, NEW objs \in Seq(ObjectRec), NEW t \in TaskRec, NEW id \in Nat, NEW outcome,
         t.leg = "run" => t.obj \in DOMAIN objs,
         NEW ob, ob = MarkEnd(objs, t, id, outcome)
  PROVE  /\ ob \in Seq(ObjectRec) /\ DOMAIN ob = DOMAIN objs /\ Len(ob) = Len(objs)
         /\ \A o \in DOMAIN objs :
              /\ ob[o].state = objs[o].state
              /\ ob[o].overlapped = objs[o].overlapped
              /\ ob[o].serial = IF t.leg = "run" /\ o = t.obj /\ outcome = "ok"
                                THEN Apply(t.op, id, objs[o].serial) ELSE objs[o].serial
<1>1. ob = IF t.leg = "run" /\ outcome = "ok"
           THEN [objs EXCEPT ![t.obj].serial = Apply(t.op, id, @)] ELSE objs
  BY DEF MarkEnd
<1>2. DOMAIN objs = 1 .. Len(objs) /\ Len(objs) \in Nat /\ \A o \in DOMAIN objs : objs[o] \in ObjectRec
  BY ElementOfSeq, LenProperties
<1>3. CASE ~(t.leg = "run" /\ outcome = "ok")
  BY <1>1, <1>3
<1>4. CASE t.leg = "run" /\ outcome = "ok"
  <2>1. t.obj \in DOMAIN objs
    BY <1>4
  <2>2. PICK new : new = Apply(t.op, id, objs[t.obj].serial)
    OBVIOUS
  <2>3. new \in SUBSET Nat
    BY <1>2, <2>1, <2>2, ApplyType DEF ObjectRec
  <2>4. ob = [objs EXCEPT ![t.obj] = [objs[t.obj] EXCEPT !.serial = new]]
    BY <1>1, <1>4, <2>2
  <2>5. [objs[t.obj] EXCEPT !.serial = new] \in ObjectRec
    BY <1>2, <2>1, <2>3 DEF ObjectRec
  <2>6. ob \in Seq(ObjectRec) /\ DOMAIN ob = DOMAIN objs /\ Len(ob) = Len(objs)
    BY <1>2, <2>1, <2>4, <2>5
  <2>7. ob[t.obj] = [objs[t.obj] EXCEPT !.serial = new]
    BY <2>1, <2>4
  <2>8. \A o \in DOMAIN objs : o # t.obj => ob[o] = objs[o]
    BY <2>4
  <2>9. /\ ob[t.obj].state = objs[t.obj].state /\ ob[t.obj].overlapped = objs[t.obj].overlapped
        /\ ob[t.obj].serial = new
    BY <1>2, <2>1, <2>5, <2>7 DEF ObjectRec
  <2> QED
    BY <1>4, <2>2, <2>6, <2>8, <2>9
<1> QED
  BY <1>3, <1>4

\* Both at once, for a run that reads and ends in one step.
LEMMA MarkBothShape ==
  ASSUME Typed, NEW objs \in Seq(ObjectRec), NEW t \in TaskRec, NEW id \in Nat, NEW outcome,
         t.leg = "run" => t.obj \in DOMAIN objs
  PROVE  Marked(MarkEnd(MarkRead(objs, t), t, id, outcome), objs, t, id, outcome)
<1>1. PICK m : m = MarkRead(objs, t)
  OBVIOUS
<1>2. Marked(m, objs, t, id, "none")
  BY <1>1, MarkReadShape
<1>3. m \in Seq(ObjectRec) /\ DOMAIN m = DOMAIN objs /\ Len(m) = Len(objs)
  BY <1>2 DEF Marked
<1>4. PICK ob : ob = MarkEnd(m, t, id, outcome)
  OBVIOUS
<1>5. /\ ob \in Seq(ObjectRec) /\ DOMAIN ob = DOMAIN m /\ Len(ob) = Len(m)
      /\ \A o \in DOMAIN m :
           /\ ob[o].state = m[o].state
           /\ ob[o].overlapped = m[o].overlapped
           /\ ob[o].serial = IF t.leg = "run" /\ o = t.obj /\ outcome = "ok"
                             THEN Apply(t.op, id, m[o].serial) ELSE m[o].serial
  BY <1>3, <1>4, MarkEndShape
<1>6. \A o \in DOMAIN objs : m[o].serial = objs[o].serial
  BY <1>2 DEF Marked
<1>7. Marked(ob, objs, t, id, outcome)
  BY <1>2, <1>3, <1>5, <1>6 DEF Marked
<1> QED
  BY <1>1, <1>4, <1>7
\* A task that begins an execution or ends without one, as deploy(), call() and the
\* continuation of a manifest read make it: a new task, or one whose read has settled.
Finishes(id, t, objs, due) ==
    /\ tasks' = Put(id, [t EXCEPT !.at = "done"])
    /\ objects' = objs /\ settled' = due
    /\ UNCHANGED <<queue, inflight, held, snapshot, crashes>>

Begins(id, t, objs, due) == Launch(id, t, objs, due) \/ (Finishes(id, t, objs, due) /\ t.leg = "run")

Ready(id, t, objs, due) ==
    /\ id \in 1 .. Len(tasks) + 1
    /\ id \in DOMAIN tasks => tasks[id].leg = "manifest" /\ tasks[id].at = "settled"
    /\ due \in Seq(Nat) /\ Distinct(due) /\ Elems(due) = Elems(settled) \ {id}
    /\ objs = objects \/ \E source \in author.sources : objs = Append(objects, NewObject(source))
    /\ t \in TaskRec /\ t.outcome = "none" /\ t.read = {} /\ t.seen = t.called /\ t.floor = 0
    /\ t.called <= seeds
    /\ t.leg = "run" => t.obj \in DOMAIN objs
    /\ t.leg = "manifest" => t.kind = "deploy"
    /\ author.awaits => \A u \in DOMAIN tasks : u # id => tasks[u].at = "done"

\* What no execution changes of a task.
Same(new, t) ==
    /\ new.kind = t.kind /\ new.leg = t.leg /\ new.obj = t.obj /\ new.op = t.op
    /\ new.source = t.source /\ new.params = t.params /\ new.init = t.init
    /\ new.called = t.called /\ new.verdict = t.verdict /\ new.blocks = t.blocks

Unread(new, t) == new.read = t.read /\ new.seen = t.seen /\ new.floor = t.floor

HasRead(new, t, objs, crossChain) ==
    IF t.leg = "manifest" THEN Unread(new, t)
    ELSE new.read = objs[t.obj].state /\ new.seen = crossChain /\ new.floor = blockSeeds

StartsNow(id, t, objs, due, new) ==
    /\ mode = "in-process"
    /\ new.at = "settled" /\ new.outcome \in Outcomes(t) /\ HasRead(new, t, objs, seeds)
    /\ Marked(objects', objs, t, id, new.outcome)
    /\ settled' = Append(due, id) /\ queue' = queue

StartsLater(id, t, objs, due, new) ==
    /\ mode = "subprocess"
    /\ new.at = "waiting" /\ new.outcome = "none" /\ Unread(new, t)
    /\ objects' = objs /\ settled' = due /\ queue' = Append(queue, id)

Refused(id, t, objs, due, new) ==
    /\ new.at = "settled" /\ new.outcome = "rejected" /\ Unread(new, t)
    /\ objects' = objs /\ settled' = Append(due, id) /\ queue' = queue

NotRun(id, t, objs, due, new) ==
    /\ t.leg = "run" /\ new.at = "done" /\ new.outcome = "none" /\ Unread(new, t)
    /\ objects' = objs /\ settled' = due /\ queue' = queue

\* Task u of the next state is new, every other one is as it was.
OnlyTask(u, new) ==
    /\ new \in TaskRec /\ tasks' \in Seq(TaskRec) /\ u \in Nat /\ u # 0
    /\ DOMAIN tasks' = DOMAIN tasks \cup {u}
    /\ tasks'[u] = new
    /\ \A v \in DOMAIN tasks : v # u => tasks'[v] = tasks[v]

\* Where the objects of a task that begins come from.
LEMMA ReadyObjects ==
  ASSUME Typed, NEW id, NEW t, NEW objs, NEW due, Ready(id, t, objs, due)
  PROVE  /\ objs \in Seq(ObjectRec) /\ DOMAIN objects \subseteq DOMAIN objs
         /\ Len(objects) <= Len(objs) /\ Len(objects) \in Nat /\ Len(objs) \in Nat
         /\ DOMAIN objects = 1 .. Len(objects) /\ DOMAIN objs = 1 .. Len(objs)
         /\ \A o \in DOMAIN objs :
              \/ o \in DOMAIN objects /\ objs[o] = objects[o]
              \/ /\ o \notin DOMAIN objects
                 /\ objs[o].state = {} /\ objs[o].serial = {} /\ ~objs[o].overlapped
<1>1. objects \in Seq(ObjectRec) /\ DOMAIN objects = 1 .. Len(objects) /\ Len(objects) \in Nat
  BY LenProperties DEF Typed
<1>2. CASE objs = objects
  BY <1>1, <1>2
<1>3. CASE \E source \in author.sources : objs = Append(objects, NewObject(source))
  <2>1. PICK source \in author.sources : objs = Append(objects, NewObject(source))
    BY <1>3
  <2>2. PICK new : new = NewObject(source)
    OBVIOUS
  <2>3. author.sources \subseteq Sources
    BY DEF Typed, Sources
  <2>4. new \in ObjectRec /\ new.state = {} /\ new.serial = {} /\ ~new.overlapped
    BY <2>2, <2>3 DEF NewObject, ObjectRec
  <2>5. objs = Append(objects, new)
    BY <2>1, <2>2
  <2>6. /\ objs \in Seq(ObjectRec) /\ Len(objs) = Len(objects) + 1
        /\ \A o \in 1 .. Len(objects) : objs[o] = objects[o]
        /\ objs[Len(objects) + 1] = new
    BY <1>1, <2>4, <2>5, AppendProperties
  <2>7. DOMAIN objs = 1 .. Len(objects) + 1
    BY <1>1, <2>6, LenProperties
  <2> QED
    BY <1>1, <2>4, <2>6, <2>7
<1> QED
  BY <1>2, <1>3 DEF Ready

\* Putting a task in its place.
LEMMA PutShape ==
  ASSUME Typed, NEW id \in 1 .. Len(tasks) + 1, NEW new \in TaskRec, tasks' = Put(id, new)
  PROVE  OnlyTask(id, new)
<1>1. tasks \in Seq(TaskRec) /\ DOMAIN tasks = 1 .. Len(tasks) /\ Len(tasks) \in Nat
      /\ \A v \in DOMAIN tasks : tasks[v] \in TaskRec
  BY LenProperties, ElementOfSeq DEF Typed
<1>2. id \in Nat /\ id # 0
  BY <1>1
<1>3. CASE id > Len(tasks)
  <2>1. id = Len(tasks) + 1 /\ tasks' = Append(tasks, new)
    BY <1>1, <1>3 DEF Put
  <2>2. /\ tasks' \in Seq(TaskRec) /\ Len(tasks') = Len(tasks) + 1
        /\ \A v \in 1 .. Len(tasks) : tasks'[v] = tasks[v]
        /\ tasks'[Len(tasks) + 1] = new
    BY <1>1, <2>1, AppendProperties
  <2>3. DOMAIN tasks' = 1 .. Len(tasks) + 1
    BY <2>2, LenProperties
  <2>4. \A v : v \in 1 .. Len(tasks) + 1 <=> v \in 1 .. Len(tasks) \/ v = Len(tasks) + 1
    BY <1>1
  <2>5. DOMAIN tasks' = DOMAIN tasks \cup {id}
    BY <1>1, <2>1, <2>3, <2>4
  <2> QED
    BY <1>1, <1>2, <2>1, <2>2, <2>5 DEF OnlyTask
<1>4. CASE ~(id > Len(tasks))
  <2>1. id \in DOMAIN tasks /\ tasks' = [tasks EXCEPT ![id] = new]
    BY <1>1, <1>4 DEF Put
  <2>2. tasks' \in Seq(TaskRec) /\ DOMAIN tasks' = DOMAIN tasks
    BY <1>1, <2>1
  <2> QED
    BY <1>2, <2>1, <2>2 DEF OnlyTask
<1> QED
  BY <1>3, <1>4

\* The four ways in which a task begins.
LEMMA BeginShape ==
  ASSUME Typed, NEW id, NEW t, NEW objs, NEW due,
         Ready(id, t, objs, due), Begins(id, t, objs, due)
  PROVE  \E new : /\ OnlyTask(id, new) /\ Same(new, t) /\ inflight' = inflight
                  /\ \/ StartsNow(id, t, objs, due, new) \/ StartsLater(id, t, objs, due, new)
                     \/ Refused(id, t, objs, due, new) \/ NotRun(id, t, objs, due, new)
<1> DEFINE Shape(new) ==
             /\ OnlyTask(id, new) /\ Same(new, t) /\ inflight' = inflight
             /\ \/ StartsNow(id, t, objs, due, new) \/ StartsLater(id, t, objs, due, new)
                \/ Refused(id, t, objs, due, new) \/ NotRun(id, t, objs, due, new)
<1>1. /\ id \in 1 .. Len(tasks) + 1 /\ t \in TaskRec /\ t.outcome = "none"
      /\ t.leg = "run" => t.obj \in DOMAIN objs
  BY DEF Ready
<1>2. objs \in Seq(ObjectRec) /\ \A o \in DOMAIN objs : objs[o] \in ObjectRec
  BY ReadyObjects, ElementOfSeq, LenProperties
<1>3. id \in Nat
  BY <1>1, LenProperties DEF Typed
<1>4. ASSUME mode = "in-process", NEW outcome \in Outcomes(t),
             tasks' = Put(id, Ends(Reads(t, objs, seeds), outcome)),
             objects' = MarkEnd(MarkRead(objs, t), t, id, outcome),
             settled' = Append(due, id), queue' = queue, inflight' = inflight
      PROVE  \E new : Shape(new)
  <2>1. outcome \in {"ok", "failed", "rejected"}
    BY DEF Outcomes
  <2>2. PICK read : read = IF t.leg = "manifest" THEN t.read ELSE objs[t.obj].state
    OBVIOUS
  <2>3. read \in SUBSET Nat /\ seeds \in Nat /\ blockSeeds \in Nat /\ t.leg \in {"run", "manifest"}
    BY <1>1, <1>2, <2>2 DEF Typed, TaskRec, ObjectRec
  <2>4. PICK new : new = Ends(Reads(t, objs, seeds), outcome)
    OBVIOUS
  <2>5. /\ new \in TaskRec /\ new.at = "settled" /\ new.outcome = outcome
        /\ new.read = read
        /\ new.seen = IF t.leg = "manifest" THEN t.seen ELSE seeds
        /\ new.floor = IF t.leg = "manifest" THEN t.floor ELSE blockSeeds
        /\ Same(new, t)
    <3>1. CASE t.leg = "manifest"
      <4>1. new = [t EXCEPT !.at = "settled", !.outcome = outcome]
        BY <2>4, <3>1 DEF Ends, Reads
      <4> QED
        BY <1>1, <2>1, <2>2, <3>1, <4>1 DEF TaskRec, Same
    <3>2. CASE t.leg = "run"
      <4>1. new = [[t EXCEPT !.read = read, !.seen = seeds, !.floor = blockSeeds]
                      EXCEPT !.at = "settled", !.outcome = outcome]
        BY <2>2, <2>4, <3>2 DEF Ends, Reads
      <4> QED
        BY <1>1, <2>1, <2>3, <3>2, <4>1 DEF TaskRec, Same
    <3> QED
      BY <2>3, <3>1, <3>2
  <2>6. OnlyTask(id, new)
    BY <1>1, <1>4, <2>4, <2>5, PutShape
  <2>7. Marked(objects', objs, t, id, outcome)
    BY <1>1, <1>2, <1>3, <1>4, MarkBothShape
  <2>8. StartsNow(id, t, objs, due, new)
    BY <1>4, <2>2, <2>3, <2>5, <2>7 DEF StartsNow, HasRead, Unread
  <2> QED
    BY <1>4, <2>5, <2>6, <2>8
<1>5. ASSUME NEW at \in {"waiting", "settled", "done"}, NEW outcome \in {"none", "rejected"},
             tasks' = Put(id, [t EXCEPT !.at = at, !.outcome = outcome])
      PROVE  \E new : /\ OnlyTask(id, new) /\ Same(new, t) /\ Unread(new, t)
                      /\ new.at = at /\ new.outcome = outcome
  <2>1. PICK new : new = [t EXCEPT !.at = at, !.outcome = outcome]
    OBVIOUS
  <2>2. new \in TaskRec /\ new.at = at /\ new.outcome = outcome /\ Same(new, t) /\ Unread(new, t)
    BY <1>1, <2>1 DEF TaskRec, Same, Unread
  <2>3. OnlyTask(id, new)
    BY <1>1, <1>5, <2>1, <2>2, PutShape
  <2> QED
    BY <2>2, <2>3
<1>6. ASSUME NEW at \in {"waiting", "done"}
      PROVE  [t EXCEPT !.at = at] = [t EXCEPT !.at = at, !.outcome = "none"]
  BY <1>1 DEF TaskRec
<1>7. CASE Launch(id, t, objs, due)
  <2>1. inflight' = inflight
    BY <1>7 DEF Launch
  <2>2. CASE /\ mode = "in-process"
             /\ \E outcome \in Outcomes(t) :
                  /\ tasks' = Put(id, Ends(Reads(t, objs, seeds), outcome))
                  /\ objects' = MarkEnd(MarkRead(objs, t), t, id, outcome)
             /\ settled' = Append(due, id)
             /\ UNCHANGED queue
    BY <1>4, <2>1, <2>2
  <2>3. CASE /\ mode = "subprocess" /\ ~closed
             /\ tasks' = Put(id, [t EXCEPT !.at = "waiting"])
             /\ queue' = Append(queue, id)
             /\ settled' = due
             /\ objects' = objs
    <3>1. tasks' = Put(id, [t EXCEPT !.at = "waiting", !.outcome = "none"])
      BY <1>6, <2>3
    <3>2. PICK new : /\ OnlyTask(id, new) /\ Same(new, t) /\ Unread(new, t)
                     /\ new.at = "waiting" /\ new.outcome = "none"
      BY <1>5, <3>1
    <3>3. StartsLater(id, t, objs, due, new)
      BY <2>3, <3>2 DEF StartsLater
    <3> QED
      BY <2>1, <3>2, <3>3
  <2>4. CASE /\ mode = "subprocess" /\ (closed \/ crashes > 0)
             /\ tasks' = Put(id, Ends(t, "rejected"))
             /\ settled' = Append(due, id)
             /\ objects' = objs
             /\ UNCHANGED queue
    <3>1. tasks' = Put(id, [t EXCEPT !.at = "settled", !.outcome = "rejected"])
      BY <2>4 DEF Ends
    <3>2. PICK new : /\ OnlyTask(id, new) /\ Same(new, t) /\ Unread(new, t)
                     /\ new.at = "settled" /\ new.outcome = "rejected"
      BY <1>5, <3>1
    <3>3. Refused(id, t, objs, due, new)
      BY <2>4, <3>2 DEF Refused
    <3> QED
      BY <2>1, <3>2, <3>3
  <2> QED
    BY <1>7, <2>2, <2>3, <2>4 DEF Launch
<1>8. CASE Finishes(id, t, objs, due) /\ t.leg = "run"
  <2>1. tasks' = Put(id, [t EXCEPT !.at = "done", !.outcome = "none"])
    BY <1>6, <1>8 DEF Finishes
  <2>2. PICK new : /\ OnlyTask(id, new) /\ Same(new, t) /\ Unread(new, t)
                   /\ new.at = "done" /\ new.outcome = "none"
    BY <1>5, <2>1
  <2>3. NotRun(id, t, objs, due, new) /\ inflight' = inflight
    BY <1>8, <2>2 DEF NotRun, Finishes
  <2> QED
    BY <2>2, <2>3
<1> QED
  BY <1>7, <1>8 DEF Begins
-------------------------------------------------------------------------------
(***************************************************************************)
(* A task that begins.                                                     *)
(***************************************************************************)
Began(id, t, objs, due, new) ==
    /\ Ready(id, t, objs, due)
    /\ OnlyTask(id, new) /\ Same(new, t) /\ inflight' = inflight
    /\ \/ StartsNow(id, t, objs, due, new) \/ StartsLater(id, t, objs, due, new)
       \/ Refused(id, t, objs, due, new) \/ NotRun(id, t, objs, due, new)
    /\ UNCHANGED <<world, held, snapshot, crashes>>

\* What the four ways have in common.
LEMMA BeganParts ==
  ASSUME Typed, Placed, NEW id, NEW t, NEW objs, NEW due, NEW new, Began(id, t, objs, due, new)
  PROVE  /\ settled' \in Seq(Nat) /\ Distinct(settled') /\ queue' \in Seq(Nat) /\ Distinct(queue')
         /\ Elems(settled') = IF new.at = "settled" THEN Elems(due) \cup {id} ELSE Elems(due)
         /\ Elems(queue') = IF new.at = "waiting" THEN Elems(queue) \cup {id} ELSE Elems(queue)
         /\ new.at = "waiting" => mode = "subprocess"
         /\ new.at # "waiting" => queue' = queue
         /\ new.at \in {"settled", "waiting", "done"}
         /\ new.at = "waiting" => new.outcome = "none"
         /\ new.at = "done" => new.leg = "run"
         /\ objects' \in Seq(ObjectRec) /\ DOMAIN objects' = DOMAIN objs /\ Len(objects') = Len(objs)
         /\ id \notin Elems(queue) /\ id # inflight
<1>1. /\ id \in Nat /\ due \in Seq(Nat) /\ Distinct(due) /\ id \notin Elems(due)
      /\ (id \in DOMAIN tasks => tasks[id].at = "settled")
  BY DEF Began, Ready, OnlyTask
<1>2. queue \in Seq(Nat) /\ Distinct(queue) /\ id \notin Elems(queue)
  BY <1>1 DEF Typed, Placed
<1>3. id # inflight
  BY <1>1 DEF Placed, Began, OnlyTask
<1>4. /\ Append(due, id) \in Seq(Nat) /\ Distinct(Append(due, id))
      /\ Elems(Append(due, id)) = Elems(due) \cup {id}
  BY <1>1, AppendElems
<1>5. /\ Append(queue, id) \in Seq(Nat) /\ Distinct(Append(queue, id))
      /\ Elems(Append(queue, id)) = Elems(queue) \cup {id}
  BY <1>1, <1>2, AppendElems
<1>6. objs \in Seq(ObjectRec)
  BY ReadyObjects DEF Began
<1>7. new.leg = t.leg
  BY DEF Began, Same
<1>8. CASE StartsNow(id, t, objs, due, new)
  BY <1>1, <1>2, <1>3, <1>4, <1>8 DEF StartsNow, Marked
<1>9. CASE StartsLater(id, t, objs, due, new)
  BY <1>1, <1>2, <1>3, <1>5, <1>6, <1>9 DEF StartsLater
<1>10. CASE Refused(id, t, objs, due, new)
  BY <1>1, <1>2, <1>3, <1>4, <1>6, <1>10 DEF Refused
<1>11. CASE NotRun(id, t, objs, due, new)
  BY <1>1, <1>2, <1>3, <1>6, <1>7, <1>11 DEF NotRun
<1> QED
  BY <1>8, <1>9, <1>10, <1>11 DEF Began

\* The values keep their types.
LEMMA BeganTyped ==
  ASSUME Typed, Placed, NEW id, NEW t, NEW objs, NEW due, NEW new, Began(id, t, objs, due, new),
         contracts' \in [Indexes -> 0 .. Len(objs)]
  PROVE  Typed'
<1>1. tasks' \in Seq(TaskRec) /\ inflight' = inflight /\ UNCHANGED <<world, held, snapshot, crashes>>
  BY DEF Began, OnlyTask
<1>2. /\ settled' \in Seq(Nat) /\ queue' \in Seq(Nat) /\ objects' \in Seq(ObjectRec)
      /\ Len(objects') = Len(objs)
  BY BeganParts
<1> QED
  BY <1>1, <1>2 DEF Typed, world

\* Its place is the one it says.
LEMMA BeganPlaced ==
  ASSUME Typed, Placed, NEW id, NEW t, NEW objs, NEW due, NEW new, Began(id, t, objs, due, new)
  PROVE  Placed'
<1> USE BeganParts
<1>1. /\ DOMAIN tasks' = DOMAIN tasks \cup {id} /\ tasks'[id] = new
      /\ \A v \in DOMAIN tasks : v # id => tasks'[v] = tasks[v]
  BY DEF Began, OnlyTask
<1>2. Elems(due) = Elems(settled) \ {id}
  BY DEF Began, Ready
<1>3. /\ inflight' = inflight /\ mode' = mode /\ new.leg = t.leg /\ new.obj = t.obj
      /\ new.kind = t.kind
  BY DEF Began, Same, world
<1>4. DOMAIN objects \subseteq DOMAIN objects'
  BY ReadyObjects DEF Began
<1>5. \A u \in Elems(queue') : u \in DOMAIN tasks' /\ tasks'[u].at = "waiting"
  BY <1>1 DEF Placed
<1>6. inflight' # 0 => inflight' \in DOMAIN tasks' /\ tasks'[inflight'].at = "inflight"
  BY <1>1, <1>3 DEF Placed
<1>7. Elems(settled') \subseteq DOMAIN tasks'
  BY <1>1, <1>2 DEF Placed
<1>8. mode' = "in-process" => queue' = <<>> /\ inflight' = 0
  BY <1>3 DEF Placed
<1>9. ASSUME NEW u \in DOMAIN tasks'
      PROVE  /\ tasks'[u].at = "inflight" => u = inflight'
             /\ tasks'[u].at = "settled" <=> u \in Elems(settled')
             /\ tasks'[u].at \in {"waiting", "inflight"} => tasks'[u].outcome = "none"
             /\ tasks'[u].leg = "run" => tasks'[u].obj \in DOMAIN objects'
             /\ tasks'[u].leg = "manifest" => tasks'[u].kind = "deploy" /\ tasks'[u].at # "done"
  <2>1. CASE u = id
    <3>1. /\ t.leg = "run" => t.obj \in DOMAIN objs
          /\ t.leg = "manifest" => t.kind = "deploy"
      BY DEF Began, Ready
    <3> QED
      BY <1>1, <1>2, <1>3, <2>1, <3>1
  <2>2. CASE u # id
    <3>1. u \in DOMAIN tasks /\ tasks'[u] = tasks[u]
      BY <1>1, <2>2
    <3>2. u \in Elems(settled') <=> u \in Elems(settled)
      BY <1>2, <2>2
    <3>3. /\ tasks[u].at = "inflight" => u = inflight
          /\ tasks[u].at = "settled" <=> u \in Elems(settled)
          /\ tasks[u].at \in {"waiting", "inflight"} => tasks[u].outcome = "none"
          /\ tasks[u].leg = "run" => tasks[u].obj \in DOMAIN objects
          /\ tasks[u].leg = "manifest" => tasks[u].kind = "deploy" /\ tasks[u].at # "done"
      BY <3>1 DEF Placed
    <3> QED
      BY <1>3, <1>4, <3>1, <3>2, <3>3
  <2> QED
    BY <2>1, <2>2
<1>10. Distinct(queue') /\ Distinct(settled')
  OBVIOUS
<1> QED
  BY <1>5, <1>6, <1>7, <1>8, <1>9, <1>10 DEF Placed

\* Successful runs stay what they are.
LEMMA BeganGood ==
  ASSUME Typed, Placed, NEW id, NEW t, NEW objs, NEW due, NEW new, Began(id, t, objs, due, new),
         NEW o, NEW u, Good(tasks, o, u)
  PROVE  Good(tasks', o, u)
<1>1. /\ DOMAIN tasks' = DOMAIN tasks \cup {id}
      /\ \A v \in DOMAIN tasks : v # id => tasks'[v] = tasks[v]
  BY DEF Began, OnlyTask
<1>2. u # id
  BY DEF Good, Began, Ready
<1> QED
  BY <1>1, <1>2 DEF Good

\* What the beginning of a run makes of an object.
LEMMA BeganObject ==
  ASSUME Typed, Placed, NEW id, NEW t, NEW objs, NEW due, NEW new, Began(id, t, objs, due, new),
         NEW o \in DOMAIN objects'
  PROVE  /\ objects'[o].state = objs[o].state
         /\ objects'[o].overlapped => objs[o].overlapped \/ (t.leg = "run" /\ o = t.obj /\ Overlaps(t))
         /\ new.leg = "run" /\ new.obj = o /\ new.at = "settled" /\ new.outcome = "ok" =>
              /\ mode = "in-process" /\ new.read = objs[o].state
              /\ objects'[o].serial = Apply(new.op, id, objs[o].serial)
              /\ ~objects'[o].overlapped => ~Overlaps(t)
         /\ ~objects'[o].overlapped => ~objs[o].overlapped
         /\ ~(new.leg = "run" /\ new.obj = o /\ new.at = "settled" /\ new.outcome = "ok") =>
              objects'[o].serial = objs[o].serial
         /\ new.at # "inflight"
<1>1. new.leg = t.leg /\ new.obj = t.obj /\ new.op = t.op
  BY DEF Began, Same
<1>2. DOMAIN objects' = DOMAIN objs
  BY BeganParts
<1>3. CASE StartsNow(id, t, objs, due, new)
  BY <1>1, <1>2, <1>3 DEF StartsNow, Marked, HasRead
<1>4. CASE StartsLater(id, t, objs, due, new)
  BY <1>1, <1>4 DEF StartsLater
<1>5. CASE Refused(id, t, objs, due, new)
  BY <1>1, <1>5 DEF Refused
<1>6. CASE NotRun(id, t, objs, due, new)
  BY <1>1, <1>6 DEF NotRun
<1> QED
  BY <1>3, <1>4, <1>5, <1>6 DEF Began

\* States, histories and copies hold runs of their own object.
LEMMA BeganOwn ==
  ASSUME Typed, Placed, OwnEffects, NEW id, NEW t, NEW objs, NEW due, NEW new,
         Began(id, t, objs, due, new)
  PROVE  OwnEffects'
<1>1. /\ DOMAIN tasks' = DOMAIN tasks \cup {id} /\ tasks'[id] = new
      /\ \A v \in DOMAIN tasks : v # id => tasks'[v] = tasks[v]
  BY DEF Began, OnlyTask
<1>2. \A o, u : Good(tasks, o, u) => Good(tasks', o, u)
  BY BeganGood
<1>3. ASSUME NEW o \in DOMAIN objs, NEW u \in objs[o].state \cup objs[o].serial PROVE Good(tasks, o, u)
  BY ReadyObjects DEF Began, OwnEffects
<1>4. ASSUME NEW o \in DOMAIN objects', NEW u \in objects'[o].state \cup objects'[o].serial
      PROVE  Good(tasks', o, u)
  <2>1. o \in DOMAIN objs
    BY BeganParts
  <2>2. CASE new.leg = "run" /\ new.obj = o /\ new.at = "settled" /\ new.outcome = "ok"
    <3>1. Good(tasks', o, id)
      BY <1>1, <2>2 DEF Good
    <3>2. /\ objects'[o].state = objs[o].state
          /\ objects'[o].serial = Apply(new.op, id, objs[o].serial)
      BY <2>2, BeganObject
    <3>3. Apply(new.op, id, objs[o].serial) \subseteq objs[o].serial \cup {id}
      BY DEF Apply
    <3>4. u \in objs[o].state \cup objs[o].serial \/ u = id
      BY <1>4, <3>2, <3>3
    <3> QED
      BY <1>2, <1>3, <2>1, <3>1, <3>4
  <2>3. CASE ~(new.leg = "run" /\ new.obj = o /\ new.at = "settled" /\ new.outcome = "ok")
    <3>1. u \in objs[o].state \cup objs[o].serial
      BY <2>3, BeganObject
    <3> QED
      BY <1>2, <1>3, <2>1, <3>1
  <2> QED
    BY <2>2, <2>3
<1>5. ASSUME NEW v \in DOMAIN tasks', NEW u \in tasks'[v].read
      PROVE  tasks'[v].leg = "run" /\ Good(tasks', tasks'[v].obj, u)
  <2>1. CASE v # id
    <3>1. v \in DOMAIN tasks /\ tasks'[v] = tasks[v]
      BY <1>1, <2>1
    <3>2. tasks[v].leg = "run" /\ Good(tasks, tasks[v].obj, u)
      BY <1>5, <3>1 DEF OwnEffects
    <3>3. PICK o : o = tasks[v].obj
      OBVIOUS
    <3>4. Good(tasks', o, u)
      BY <1>2, <3>2, <3>3
    <3> QED
      BY <3>1, <3>2, <3>3, <3>4 DEF Good
  <2>2. CASE v = id
    <3>1. u \in new.read /\ t.read = {} /\ new.leg = t.leg /\ new.obj = t.obj
          /\ t.leg \in {"run", "manifest"} /\ (t.leg = "run" => t.obj \in DOMAIN objs)
      BY <1>1, <1>5, <2>2 DEF Began, Ready, Same, TaskRec
    <3>2. t.leg = "run" /\ new.read = objs[t.obj].state
      BY <3>1 DEF Began, StartsNow, StartsLater, Refused, NotRun, HasRead, Unread
    <3>3. Good(tasks', t.obj, u)
      BY <1>2, <1>3, <3>1, <3>2
    <3> QED
      BY <1>1, <2>2, <3>1, <3>2, <3>3 DEF Good
  <2> QED
    BY <2>1, <2>2
<1> QED
  BY <1>4, <1>5 DEF OwnEffects, Good
\* A run that begins where none is live is the only live one.
LEMMA BeganInTurn ==
  ASSUME Typed, Placed, InTurn, NEW id, NEW t, NEW objs, NEW due, NEW new,
         Began(id, t, objs, due, new)
  PROVE  InTurn'
<1> SUFFICES ASSUME NEW o \in DOMAIN objects', ~objects'[o].overlapped
             PROVE  Turn(tasks', objects'[o], o)
  BY DEF InTurn
<1>1. /\ DOMAIN tasks' = DOMAIN tasks \cup {id} /\ tasks'[id] = new
      /\ \A v \in DOMAIN tasks : v # id => tasks'[v] = tasks[v]
  BY DEF Began, OnlyTask
<1>2. o \in DOMAIN objs /\ ~objs[o].overlapped /\ new.at # "inflight"
  BY BeganObject, BeganParts
<1>3. \A u \in DOMAIN tasks : u # id => (Live(tasks', o, u) <=> Live(tasks, o, u))
  BY <1>1 DEF Live
<1>4. id \in DOMAIN tasks => ~Live(tasks, o, id)
  BY DEF Began, Ready, Live
<1>5. Turn(tasks, objs[o], o)
  <2>1. CASE o \in DOMAIN objects /\ objs[o] = objects[o]
    BY <1>2, <2>1 DEF InTurn
  <2>2. CASE o \notin DOMAIN objects /\ objs[o].state = {} /\ objs[o].serial = {}
    <3>1. \A u \in DOMAIN tasks : ~Live(tasks, o, u)
      BY <2>2 DEF Live, Placed
    <3> QED
      BY <2>2, <3>1 DEF Turn
  <2> QED
    BY <1>2, <2>1, <2>2, ReadyObjects DEF Began
<1>6. CASE Live(tasks', o, id)
  <2>1. new.leg = "run" /\ new.obj = o /\ new.at = "settled" /\ new.outcome = "ok"
    BY <1>1, <1>2, <1>6 DEF Live
  <2>2. /\ mode = "in-process" /\ new.read = objs[o].state /\ ~Overlaps(t)
        /\ objects'[o].serial = Apply(new.op, id, objs[o].serial)
        /\ objects'[o].state = objs[o].state
    BY <2>1, BeganObject
  <2>3. ASSUME NEW u \in DOMAIN tasks, Live(tasks, o, u) PROVE FALSE
    <3>1. t.obj = o
      BY <2>1 DEF Began, Same
    <3>2. tasks[u].at # "inflight"
      BY <2>2, LenProperties DEF Placed, Typed
    <3>3. u \in Elems(settled) /\ tasks[u].outcome = "ok" /\ tasks[u].leg = "run" /\ tasks[u].obj = o
      BY <2>3, <3>2 DEF Live, Placed
    <3> QED
      BY <2>2, <3>1, <3>3 DEF Overlaps
  <2>4. objs[o].serial = objs[o].state
    BY <1>5, <2>3 DEF Turn
  <2>5. \A u \in DOMAIN tasks' : Live(tasks', o, u) => u = id
    BY <1>1, <1>3, <2>3
  <2> QED
    BY <1>1, <1>6, <2>1, <2>2, <2>4, <2>5 DEF Turn
<1>7. CASE ~Live(tasks', o, id)
  <2>1. ~(new.leg = "run" /\ new.obj = o /\ new.at = "settled" /\ new.outcome = "ok")
    BY <1>1, <1>7 DEF Live
  <2>2. objects'[o].state = objs[o].state /\ objects'[o].serial = objs[o].serial
    BY <2>1, BeganObject
  <2>3. \A u \in DOMAIN tasks' : Live(tasks', o, u) => u \in DOMAIN tasks /\ Live(tasks, o, u) /\ tasks'[u] = tasks[u]
    BY <1>1, <1>3, <1>7
  <2>4. (\A u \in DOMAIN tasks' : ~Live(tasks', o, u)) => \A u \in DOMAIN tasks : ~Live(tasks, o, u)
    BY <1>1, <1>3, <1>4
  <2> QED
    BY <1>5, <2>2, <2>3, <2>4 DEF Turn
<1> QED
  BY <1>6, <1>7

\* It is the only task under way of an author who awaits.
LEMMA BeganOneByOne ==
  ASSUME Typed, Placed, OneByOne, NEW id, NEW t, NEW objs, NEW due, NEW new,
         Began(id, t, objs, due, new)
  PROVE  OneByOne'
<1>1. /\ DOMAIN tasks' = DOMAIN tasks \cup {id}
      /\ \A v \in DOMAIN tasks : v # id => tasks'[v] = tasks[v]
      /\ author' = author
  BY DEF Began, OnlyTask, world
<1> SUFFICES ASSUME author.awaits
             PROVE  /\ \A u, v \in DOMAIN tasks' : tasks'[u].at # "done" /\ tasks'[v].at # "done" => u = v
                    /\ \A o \in DOMAIN objects' : ~objects'[o].overlapped
  BY <1>1 DEF OneByOne
<1>2. \A u \in DOMAIN tasks : u # id => tasks[u].at = "done"
  BY DEF Began, Ready
<1>3. ~Overlaps(t)
  <2> SUFFICES ASSUME NEW u \in Elems(settled), tasks[u].leg = "run" PROVE FALSE
    BY DEF Overlaps
  <2>1. u \in DOMAIN tasks /\ tasks[u].at = "settled"
    BY DEF Placed
  <2>2. u = id
    BY <1>2, <2>1
  <2> QED
    BY <2>1, <2>2 DEF Began, Ready
<1>4. ASSUME NEW o \in DOMAIN objects' PROVE ~objects'[o].overlapped
  <2>1. o \in DOMAIN objs
    BY BeganParts
  <2>2. ~objs[o].overlapped
    BY <2>1, ReadyObjects DEF Began, OneByOne
  <2> QED
    BY <1>3, <2>2, BeganObject
<1> QED
  BY <1>1, <1>2, <1>4

\* The copy of the seeds that a run takes in this process is complete.
LEMMA BeganSeeding ==
  ASSUME Typed, Placed, Seeding, NEW id, NEW t, NEW objs, NEW due, NEW new,
         Began(id, t, objs, due, new)
  PROVE  Seeding'
<1>1. /\ DOMAIN tasks' = DOMAIN tasks \cup {id} /\ tasks'[id] = new
      /\ \A v \in DOMAIN tasks : v # id => tasks'[v] = tasks[v]
  BY DEF Began, OnlyTask
<1>2. seeds' = seeds /\ blockSeeds' = blockSeeds /\ snapshot' = snapshot /\ mode' = mode
  BY DEF Began, world
<1>3. /\ blockSeeds <= seeds /\ blockSeeds \in Nat /\ seeds \in Nat
      /\ snapshot # Unset => blockSeeds <= snapshot /\ snapshot <= seeds
  BY DEF Seeding, Typed
<1>4. /\ t.called <= seeds /\ t.seen = t.called /\ t.floor = 0 /\ t.called \in Nat
      /\ new.called = t.called /\ new.leg = t.leg /\ t.leg \in {"run", "manifest"}
  BY DEF Began, Ready, Same, TaskRec
<1>5. \/ Unread(new, t)
      \/ new.leg = "run" /\ new.seen = seeds /\ new.floor = blockSeeds /\ new.at = "settled"
  BY <1>4 DEF Began, StartsNow, StartsLater, Refused, NotRun, HasRead
<1>6. ASSUME NEW u \in DOMAIN tasks'
      PROVE  /\ tasks'[u].called <= seeds
             /\ tasks'[u].leg = "manifest" \/ tasks'[u].at = "waiting" =>
                  tasks'[u].seen = tasks'[u].called /\ tasks'[u].floor = 0
             /\ tasks'[u].leg = "run" /\ tasks'[u].at # "waiting" /\ tasks'[u].outcome # "rejected" =>
                  tasks'[u].seen >= IF mode = "in-process" THEN tasks'[u].called ELSE tasks'[u].floor
  <2>1. CASE u = id
    <3>1. CASE Unread(new, t)
      BY <1>1, <1>4, <2>1, <3>1 DEF Unread
    <3>2. CASE new.leg = "run" /\ new.seen = seeds /\ new.floor = blockSeeds /\ new.at = "settled"
      BY <1>1, <1>3, <1>4, <2>1, <3>2
    <3> QED
      BY <1>5, <3>1, <3>2
  <2>2. CASE u # id
    <3>1. u \in DOMAIN tasks /\ tasks'[u] = tasks[u]
      BY <1>1, <2>2
    <3> QED
      BY <3>1 DEF Seeding, SeedsVisible
  <2> QED
    BY <2>1, <2>2
<1>7. /\ blockSeeds' <= seeds'
      /\ snapshot' # Unset => blockSeeds' <= snapshot' /\ snapshot' <= seeds'
  BY <1>2, <1>3
<1> QED
  BY <1>2, <1>6, <1>7 DEF Seeding, SeedsVisible
\* The verdict a deploy begins an execution with.
VerdictFits(t, running) ==
    t.kind = "deploy" =>
      /\ t.source \in author.sources
      /\ t.leg = "manifest" =>
           /\ t.verdict = "valid" /\ ~t.init
           /\ t.blocks # {} /\ \A b \in t.blocks : t.blocks = {b} /\ b < t.source.bannedFrom
      /\ t.leg = "run" /\ t.verdict # "host" /\ crashes = 0 =>
           \A b \in t.blocks : t.blocks = {b} =>
             /\ t.verdict = ChainVerdict(t.source, t.params, b, "none")
             /\ running /\ t.verdict = "valid" => Constructs(t, b)

\* A verdict that fits stays right when the task begins.
LEMMA BeganVerdicts ==
  ASSUME Typed, Placed, Verdicts, NEW id, NEW t, NEW objs, NEW due, NEW new,
         Began(id, t, objs, due, new), VerdictFits(t, new.at # "done")
  PROVE  Verdicts'
<1>1. /\ DOMAIN tasks' = DOMAIN tasks \cup {id} /\ tasks'[id] = new
      /\ \A v \in DOMAIN tasks : v # id => tasks'[v] = tasks[v]
  BY DEF Began, OnlyTask
<1>2. author' = author /\ crashes' = crashes
  BY DEF Began, world
<1>3. Same(new, t) /\ t.outcome = "none"
  BY DEF Began, Ready
<1>4. new.at = "done" => new.outcome = "none"
  BY DEF Began, StartsNow, StartsLater, Refused, NotRun
<1>5. ASSUME new.leg = "manifest", new.at = "settled", new.outcome # "rejected"
      PROVE  new.outcome = "ok" <=> new.source.reads
  <2>1. t.leg = "manifest" /\ new.source = t.source /\ new.outcome \in Outcomes(t)
    BY <1>3, <1>5 DEF Same, Began, StartsNow, StartsLater, Refused, NotRun
  <2> QED
    BY <1>5, <2>1 DEF Outcomes
<1>6. new.kind = "deploy" => JudgedSoFar(new, author.sources, crashes)
  <2> SUFFICES ASSUME new.kind = "deploy" PROVE JudgedSoFar(new, author.sources, crashes)
    OBVIOUS
  <2>1. /\ new.source = t.source /\ new.leg = t.leg /\ new.verdict = t.verdict /\ new.init = t.init
        /\ new.blocks = t.blocks /\ new.params = t.params /\ t.kind = "deploy"
    BY <1>3 DEF Same
  <2>2. new.source \in author.sources
    BY <2>1 DEF VerdictFits
  <2>3. new.leg = "manifest" =>
          /\ new.verdict = "valid" /\ ~new.init
          /\ new.blocks # {} /\ \A b \in new.blocks : new.blocks = {b} /\ b < new.source.bannedFrom
    BY <2>1 DEF VerdictFits
  <2>4. ASSUME new.leg = "run", new.verdict # "host", crashes = 0, NEW b \in new.blocks, new.blocks = {b}
        PROVE  /\ new.at # "done" => /\ new.verdict = ChainVerdict(new.source, new.params, b, "none")
                                     /\ new.verdict = "valid" => Constructs(new, b)
               /\ new.at = "done" /\ new.outcome # "rejected" =>
                    new.verdict = ChainVerdict(new.source, new.params, b, new.outcome)
    <3>1. /\ t.verdict = ChainVerdict(t.source, t.params, b, "none")
          /\ new.at # "done" /\ t.verdict = "valid" => Constructs(t, b)
      BY <2>1, <2>4 DEF VerdictFits
    <3> QED
      BY <1>4, <2>1, <3>1 DEF Constructs
  <2> QED
    BY <1>5, <2>2, <2>3, <2>4 DEF JudgedSoFar
<1>7. ASSUME NEW u \in DOMAIN tasks', tasks'[u].kind = "deploy"
      PROVE  JudgedSoFar(tasks'[u], author.sources, crashes)
  <2>1. CASE u = id
    BY <1>1, <1>6, <1>7, <2>1
  <2>2. CASE u # id
    <3>1. u \in DOMAIN tasks /\ tasks'[u] = tasks[u]
      BY <1>1, <2>2
    <3> QED
      BY <1>7, <3>1 DEF Verdicts
  <2> QED
    BY <2>1, <2>2
<1> QED
  BY <1>2, <1>7 DEF Verdicts

\* So a task that begins keeps the whole invariant.
LEMMA BeganInv ==
  ASSUME SimInv, NEW id, NEW t, NEW objs, NEW due, NEW new,
         Began(id, t, objs, due, new), VerdictFits(t, new.at # "done"),
         contracts' \in [Indexes -> 0 .. Len(objs)]
  PROVE  SimInv'
<1> USE DEF SimInv
<1>1. Typed'
  BY BeganTyped
<1>2. Placed' /\ OwnEffects'
  BY BeganPlaced, BeganOwn
<1>3. InTurn' /\ OneByOne'
  BY BeganInTurn, BeganOneByOne
<1>4. Verdicts' /\ Seeding'
  BY BeganVerdicts, BeganSeeding
<1> QED
  BY <1>1, <1>2, <1>3, <1>4

\* The same from the action itself.
LEMMA BeginInv ==
  ASSUME SimInv, NEW id, NEW t, NEW objs, NEW due, Ready(id, t, objs, due),
         \/ Launch(id, t, objs, due) /\ VerdictFits(t, TRUE)
         \/ Finishes(id, t, objs, due) /\ t.leg = "run" /\ VerdictFits(t, FALSE),
         UNCHANGED world, contracts' \in [Indexes -> 0 .. Len(objs)]
  PROVE  SimInv'
<1>1. Begins(id, t, objs, due)
  BY DEF Begins
<1>2. PICK new : /\ OnlyTask(id, new) /\ Same(new, t) /\ inflight' = inflight
                 /\ \/ StartsNow(id, t, objs, due, new) \/ StartsLater(id, t, objs, due, new)
                    \/ Refused(id, t, objs, due, new) \/ NotRun(id, t, objs, due, new)
  BY <1>1, BeginShape DEF SimInv
<1>3. UNCHANGED <<held, snapshot, crashes>>
  BY <1>1 DEF Begins, Launch, Finishes
<1>4. Began(id, t, objs, due, new)
  BY <1>2, <1>3 DEF Began
<1>5. VerdictFits(t, new.at # "done")
  <2>1. CASE VerdictFits(t, TRUE)
    BY <2>1 DEF VerdictFits
  <2>2. CASE Finishes(id, t, objs, due) /\ VerdictFits(t, FALSE)
    <3>1. id \in 1 .. Len(tasks) + 1 /\ t \in TaskRec
      BY DEF Ready
    <3>2. PICK done : done = [t EXCEPT !.at = "done"]
      OBVIOUS
    <3>3. done \in TaskRec /\ done.at = "done"
      BY <3>1, <3>2 DEF TaskRec
    <3>4. OnlyTask(id, done)
      BY <2>2, <3>1, <3>2, <3>3, PutShape DEF Finishes, SimInv
    <3>5. new.at = "done"
      BY <1>2, <3>3, <3>4 DEF OnlyTask
    <3> QED
      BY <2>2, <3>5 DEF VerdictFits
  <2> QED
    BY <2>1, <2>2
<1> QED
  BY <1>4, <1>5, BeganInv
-------------------------------------------------------------------------------
(***************************************************************************)
(* deploy(), call() and the continuation of a manifest read.               *)
(***************************************************************************)
\* A contract is registered and its constructor run, with a verdict that is right so far.
LEMMA RegisterInv ==
  ASSUME SimInv, NEW id \in 1 .. Len(tasks) + 1, NEW t \in TaskRec, NEW due \in Seq(Nat),
         RegisterAndConstruct(id, t, due), UNCHANGED world,
         id \in DOMAIN tasks => tasks[id].leg = "manifest" /\ tasks[id].at = "settled",
         Distinct(due), Elems(due) = Elems(settled) \ {id},
         author.awaits => \A u \in DOMAIN tasks : u # id => tasks[u].at = "done",
         t.kind = "deploy", t.outcome = "none", t.read = {}, t.seen = t.called, t.floor = 0,
         t.called <= seeds, t.source \in author.sources,
         t.verdict # "host" /\ crashes = 0 =>
           \A b : t.blocks \cup {block} = {b} =>
             /\ t.verdict = ChainVerdict(t.source, t.params, b, "none")
             /\ t.verdict = "valid" => (t.init <=> t.source.reads /\ t.source.init)
  PROVE  SimInv'
<1>1. objects \in Seq(ObjectRec) /\ Len(objects) \in Nat /\ block \in Nat
      /\ contracts \in [Indexes -> 0 .. Len(objects)]
  BY LenProperties DEF SimInv, Typed
<1>2. PICK objs : objs = Append(objects, NewObject(t.source))
  OBVIOUS
<1>3. NewObject(t.source) \in ObjectRec
  BY DEF NewObject, ObjectRec, SimInv, Typed, Sources
<1>4. Len(objs) = Len(objects) + 1 /\ DOMAIN objs = 1 .. Len(objects) + 1 /\ Len(objs) \in DOMAIN objs
  <2>1. objs \in Seq(ObjectRec) /\ Len(objs) = Len(objects) + 1
    BY <1>1, <1>2, <1>3, AppendProperties
  <2> QED
    BY <1>1, <2>1, LenProperties
<1>5. PICK made : made = [t EXCEPT !.leg = "run", !.obj = Len(objs), !.blocks = @ \cup {block}]
  OBVIOUS
<1>6. /\ made \in TaskRec /\ made.leg = "run" /\ made.obj = Len(objs)
      /\ made.blocks = t.blocks \cup {block} /\ made.source = t.source /\ made.verdict = t.verdict
      /\ made.params = t.params /\ made.init = t.init /\ made.kind = "deploy"
      /\ made.outcome = "none" /\ made.read = {} /\ made.seen = made.called /\ made.floor = 0
      /\ made.called <= seeds
  <2>1. PICK blocks : blocks = t.blocks \cup {block}
    OBVIOUS
  <2>2. t.blocks \in SUBSET Nat
    BY DEF TaskRec
  <2>3. blocks \in SUBSET Nat
    BY <1>1, <2>1, <2>2
  <2>4. PICK n \in Nat : n = Len(objs)
    BY <1>1, <1>4
  <2>5. made = [t EXCEPT !.leg = "run", !.obj = n, !.blocks = blocks]
    BY <1>5, <2>1, <2>4
  <2>6. made \in TaskRec
    BY <2>3, <2>5 DEF TaskRec
  <2> QED
    BY <2>1, <2>4, <2>5, <2>6 DEF TaskRec
<1>7. Ready(id, made, objs, due)
  BY <1>2, <1>4, <1>6 DEF Ready
<1>8. contracts' \in [Indexes -> 0 .. Len(objs)]
  <2>1. contracts' = [contracts EXCEPT ![t.index] = Len(objs)]
    BY <1>2 DEF RegisterAndConstruct
  <2>2. contracts \in [Indexes -> 0 .. Len(objs)] /\ Len(objs) \in 0 .. Len(objs)
    BY <1>1, <1>4
  <2> QED
    BY <2>1, <2>2
<1>9. ASSUME NEW running \in BOOLEAN, running => runDeployConstructor(made)
      PROVE  VerdictFits(made, running)
  <2>1. ASSUME made.verdict # "host", crashes = 0, NEW b \in made.blocks, made.blocks = {b}
        PROVE  /\ made.verdict = ChainVerdict(made.source, made.params, b, "none")
               /\ running /\ made.verdict = "valid" => Constructs(made, b)
    <3>1. b = block /\ t.blocks \cup {block} = {b}
      BY <1>6, <2>1
    <3>2. /\ t.verdict = ChainVerdict(t.source, t.params, b, "none")
          /\ t.verdict = "valid" => (t.init <=> t.source.reads /\ t.source.init)
      BY <1>6, <2>1, <3>1
    <3> QED
      BY <1>6, <1>9, <3>1, <3>2 DEF Constructs, runDeployConstructor, isDeployInitStrictActive
  <2> QED
    BY <1>6, <2>1 DEF VerdictFits
<1>10. CASE runDeployConstructor(made) /\ Launch(id, made, objs, due)
  <2>1. VerdictFits(made, TRUE)
    BY <1>9, <1>10
  <2> QED
    BY <1>7, <1>8, <1>10, <2>1, BeginInv
<1>11. CASE /\ tasks' = Put(id, [made EXCEPT !.at = "done"])
            /\ objects' = objs
            /\ settled' = due
            /\ UNCHANGED <<queue, inflight, held, snapshot, crashes>>
  <2>1. VerdictFits(made, FALSE)
    BY <1>9
  <2>2. Finishes(id, made, objs, due)
    BY <1>11 DEF Finishes
  <2> QED
    BY <1>6, <1>7, <1>8, <2>1, <2>2, BeginInv
<1> QED
  BY <1>2, <1>5, <1>10, <1>11 DEF RegisterAndConstruct

\* A deploy with its source and first verdict is a task.
LEMMA DeployType ==
  ASSUME NEW t \in TaskRec, NEW source \in Sources, NEW params \in BOOLEAN,
         NEW verdict \in {"none", "lint", "host", "valid", "policy", "meta", "constructor"},
         NEW blocks \in SUBSET Nat,
         NEW new, new = [t EXCEPT !.source = source, !.params = params, !.verdict = verdict,
                                  !.blocks = blocks]
  PROVE  new \in TaskRec
<1>1. PICK given : given = [t EXCEPT !.source = source, !.params = params]
  OBVIOUS
<1>2. given \in TaskRec
  BY <1>1 DEF TaskRec
<1>3. PICK judged : judged = [given EXCEPT !.verdict = verdict]
  OBVIOUS
<1>4. judged \in TaskRec
  BY <1>2, <1>3 DEF TaskRec
<1>5. new = [judged EXCEPT !.blocks = blocks]
  BY <1>1, <1>3
<1> QED
  BY <1>4, <1>5 DEF TaskRec

\* A deploy with the verdict of its manifest is a task.
LEMMA JudgedType ==
  ASSUME NEW t \in TaskRec, NEW init \in BOOLEAN,
         NEW verdict \in {"none", "lint", "host", "valid", "policy", "meta", "constructor"},
         NEW new, new = [t EXCEPT !.verdict = verdict, !.init = init, !.outcome = "none"]
  PROVE  new \in TaskRec
<1>1. PICK judged : judged = [t EXCEPT !.verdict = verdict]
  OBVIOUS
<1>2. judged \in TaskRec
  BY <1>1 DEF TaskRec
<1>3. PICK given : given = [judged EXCEPT !.init = init]
  OBVIOUS
<1>4. given \in TaskRec
  BY <1>2, <1>3 DEF TaskRec
<1>5. new = [given EXCEPT !.outcome = "none"]
  BY <1>1, <1>3
<1> QED
  BY <1>4, <1>5 DEF TaskRec

\* A run with what it reads at its dispatch is a task.
LEMMA ReadType ==
  ASSUME NEW t \in TaskRec, NEW read \in SUBSET Nat, NEW seen \in Nat, NEW floor \in Nat,
         NEW new, new = [t EXCEPT !.read = read, !.seen = seen, !.floor = floor, !.at = "inflight"]
  PROVE  new \in TaskRec
  BY DEF TaskRec

\* A task of its own number is a new one.
LEMMA NewTask ==
  ASSUME SimInv
  PROVE  /\ Len(tasks) + 1 \in 1 .. Len(tasks) + 1 /\ Len(tasks) + 1 \notin DOMAIN tasks
         /\ settled \in Seq(Nat) /\ Distinct(settled)
         /\ Elems(settled) = Elems(settled) \ {Len(tasks) + 1}
         /\ objects \in Seq(ObjectRec) /\ seeds \in Nat /\ block \in Nat
<1>1. tasks \in Seq(TaskRec)
  BY DEF SimInv, Typed
<1>2. DOMAIN tasks = 1 .. Len(tasks) /\ Len(tasks) \in Nat
  BY <1>1, LenProperties
<1>3. settled \in Seq(Nat) /\ Distinct(settled) /\ Elems(settled) \subseteq DOMAIN tasks
      /\ objects \in Seq(ObjectRec) /\ seeds \in Nat /\ block \in Nat
  BY DEF SimInv, Typed, Placed
<1> QED
  BY <1>2, <1>3

\* What a fresh task is.
LEMMA TaskShape ==
  ASSUME SimInv, NEW kind \in {"deploy", "call"}, NEW index \in Indexes, NEW op \in Ops \cup {"add"},
         NEW t, t = Task(kind, index, op)
  PROVE  /\ t \in TaskRec /\ t.kind = kind /\ t.leg = "run" /\ t.outcome = "none" /\ t.read = {}
         /\ t.seen = t.called /\ t.floor = 0 /\ t.called <= seeds /\ ~t.init
         /\ t.verdict = "none"
<1>1. PICK n : n = seeds
  OBVIOUS
<1>2. n \in Nat
  BY <1>1 DEF SimInv, Typed
<1>3. t = [kind |-> kind, index |-> index, op |-> op, leg |-> "run", at |-> "waiting", obj |-> 0,
           source |-> "none", params |-> FALSE, init |-> FALSE,
           read |-> {}, seen |-> n, called |-> n, floor |-> 0,
           outcome |-> "none", verdict |-> "none", blocks |-> {}]
  BY <1>1 DEF Task
<1>4. "none" \in Sources
  BY DEF Sources
<1>5. t \in TaskRec
  BY <1>2, <1>3, <1>4 DEF TaskRec
<1> QED
  BY <1>1, <1>2, <1>3, <1>5

\* call()
LEMMA CallInv ==
  ASSUME SimInv, NEW index \in Indexes, NEW op \in Ops, Call(index, op)
  PROVE  SimInv'
<1>1. PICK id : id = Len(tasks) + 1
  OBVIOUS
<1>2. PICK objs : objs = objects
  OBVIOUS
<1>3. PICK due : due = settled
  OBVIOUS
<1>4. PICK new : new = Task("call", index, op)
  OBVIOUS
<1>5. PICK t : t = [new EXCEPT !.obj = contracts[index]]
  OBVIOUS
<1>6. contracts[index] \in 0 .. Len(objects) /\ contracts[index] # 0 /\ Len(objects) \in Nat
      /\ DOMAIN objects = 1 .. Len(objects)
  BY LenProperties DEF SimInv, Typed, Call
<1>7. /\ new \in TaskRec /\ new.kind = "call" /\ new.leg = "run" /\ new.outcome = "none"
      /\ new.read = {} /\ new.seen = new.called /\ new.floor = 0 /\ new.called <= seeds
  BY <1>4, TaskShape
<1>8. /\ t \in TaskRec /\ t.kind = "call" /\ t.leg = "run" /\ t.outcome = "none" /\ t.read = {}
      /\ t.seen = t.called /\ t.floor = 0 /\ t.called <= seeds /\ t.obj \in DOMAIN objs
  BY <1>2, <1>5, <1>6, <1>7 DEF TaskRec
<1>9. author.awaits => \A u \in DOMAIN tasks : tasks[u].at = "done"
  BY DEF Call, AuthorsTurn
<1>10. Ready(id, t, objs, due)
  BY <1>1, <1>2, <1>3, <1>8, <1>9, NewTask DEF Ready
<1>11. Launch(id, t, objs, due) /\ UNCHANGED <<world, registry>>
  BY <1>1, <1>2, <1>3, <1>4, <1>5 DEF Call
<1>12. VerdictFits(t, TRUE)
  BY <1>8 DEF VerdictFits
<1>13. contracts' \in [Indexes -> 0 .. Len(objs)]
  BY <1>2, <1>11 DEF SimInv, Typed, registry
<1> QED
  BY <1>10, <1>11, <1>12, <1>13, BeginInv

\* deploy() before its first await.
LEMMA DeployInv ==
  ASSUME SimInv, NEW source \in author.sources, NEW want, NEW params \in BOOLEAN,
         Deploy(source, want, params)
  PROVE  SimInv'
<1>1. PICK id : id = Len(tasks) + 1
  OBVIOUS
<1>2. PICK due : due = settled
  OBVIOUS
<1>3. PICK index : index = IF want = NoIndex THEN nextIndex ELSE want
  OBVIOUS
<1>4. PICK new : new = Task("deploy", index, "add")
  OBVIOUS
<1>5. index \in Indexes /\ UNCHANGED world
      /\ (author.awaits => \A u \in DOMAIN tasks : tasks[u].at = "done")
  BY <1>3 DEF Deploy, AuthorsTurn
<1>6. /\ new \in TaskRec /\ new.kind = "deploy" /\ new.outcome = "none" /\ new.leg = "run"
      /\ new.read = {} /\ new.seen = new.called /\ new.floor = 0 /\ new.called <= seeds
      /\ ~new.init
  BY <1>4, <1>5, TaskShape
<1>7. PICK verdict \in deployGateVerdict(source) :
         LET t == [new EXCEPT !.source = source, !.params = params,
                              !.verdict = verdict, !.blocks = {block}]
         IN  IF verdict = "valid"
             THEN /\ Launch(id, [t EXCEPT !.leg = "manifest"], objects, settled)
                  /\ UNCHANGED contracts
             ELSE RegisterAndConstruct(id, t, settled)
  BY <1>1, <1>3, <1>4 DEF Deploy
<1>8. PICK t : t = [new EXCEPT !.source = source, !.params = params,
                               !.verdict = verdict, !.blocks = {block}]
  OBVIOUS
<1>9. block \in Nat /\ source.bannedFrom \in Nat /\ author \in Authors
  BY NewTask, SimulatorAssumption DEF SimInv, Typed
<1>10. \/ verdict = "host"
       \/ verdict = "lint" /\ block >= source.bannedFrom
       \/ verdict = "valid" /\ block < source.bannedFrom
  BY <1>9 DEF deployGateVerdict
<1>11. /\ t \in TaskRec /\ t.kind = "deploy" /\ t.outcome = "none" /\ t.read = {}
       /\ t.seen = t.called /\ t.floor = 0 /\ t.called <= seeds /\ ~t.init
       /\ t.source = source /\ t.verdict = verdict /\ t.blocks = {block} /\ t.params = params
  <2>1. PICK blocks : blocks = {block}
    OBVIOUS
  <2>2. blocks \in SUBSET Nat
    BY <1>9, <2>1
  <2>3. source \in Sources
    BY <1>9 DEF Sources
  <2>4. verdict \in {"none", "lint", "host", "valid", "policy", "meta", "constructor"}
    BY <1>10
  <2>5. t = [new EXCEPT !.source = source, !.params = params, !.verdict = verdict, !.blocks = blocks]
    BY <1>8, <2>1
  <2>6. t \in TaskRec
    BY <1>6, <2>2, <2>3, <2>4, <2>5, DeployType
  <2> QED
    BY <1>6, <2>1, <2>5, <2>6 DEF TaskRec
<1>12. /\ id \in 1 .. Len(tasks) + 1 /\ id \notin DOMAIN tasks /\ due \in Seq(Nat)
       /\ Distinct(due) /\ Elems(due) = Elems(settled) \ {id}
  BY <1>1, <1>2, NewTask
<1>13. CASE verdict = "valid"
  <2>1. PICK first : first = [t EXCEPT !.leg = "manifest"]
    OBVIOUS
  <2>2. /\ first \in TaskRec /\ first.kind = "deploy" /\ first.leg = "manifest"
        /\ first.outcome = "none" /\ first.read = {} /\ first.seen = first.called
        /\ first.floor = 0 /\ first.called <= seeds /\ ~first.init /\ first.source = source
        /\ first.verdict = "valid" /\ first.blocks = {block}
    BY <1>11, <1>13, <2>1 DEF TaskRec
  <2>3. PICK objs : objs = objects
    OBVIOUS
  <2>4. Launch(id, first, objs, due) /\ UNCHANGED contracts
    BY <1>2, <1>7, <1>8, <1>13, <2>1, <2>3
  <2>5. Ready(id, first, objs, due)
    BY <1>5, <1>12, <2>2, <2>3 DEF Ready
  <2>6. VerdictFits(first, TRUE)
    BY <1>10, <1>13, <2>2 DEF VerdictFits
  <2>7. contracts' \in [Indexes -> 0 .. Len(objs)]
    BY <2>3, <2>4 DEF SimInv, Typed
  <2> QED
    BY <1>5, <2>4, <2>5, <2>6, <2>7, BeginInv
<1>14. CASE verdict # "valid"
  <2>1. RegisterAndConstruct(id, t, due)
    BY <1>2, <1>7, <1>8, <1>14
  <2>2. ASSUME t.verdict # "host", NEW b, t.blocks \cup {block} = {b}
        PROVE  /\ t.verdict = ChainVerdict(t.source, t.params, b, "none")
               /\ t.verdict = "valid" => (t.init <=> t.source.reads /\ t.source.init)
    <3>1. b = block /\ t.verdict = "lint" /\ block >= source.bannedFrom
      BY <1>10, <1>11, <1>14, <2>2
    <3> QED
      BY <1>11, <3>1 DEF ChainVerdict
  <2> QED
    BY <1>5, <1>11, <1>12, <2>1, <2>2, RegisterInv
<1> QED
  BY <1>13, <1>14

\* deploy() after its manifest read.
LEMMA AfterManifestInv ==
  ASSUME SimInv, NEW id \in DOMAIN tasks, AfterManifest(id)
  PROVE  SimInv'
<1>1. PICK r : r = tasks[id]
  OBVIOUS
<1>2. r.leg = "manifest" /\ id \in Elems(settled)
  BY <1>1 DEF AfterManifest, Due, Elems
<1>3. r \in TaskRec /\ r.at = "settled" /\ r.kind = "deploy" /\ DOMAIN tasks = 1 .. Len(tasks)
      /\ Len(tasks) \in Nat
  BY <1>1, <1>2, ElementOfSeq, LenProperties DEF SimInv, Typed, Placed
<1>4. r.read = {}
  BY <1>1, <1>2 DEF SimInv, OwnEffects
<1>5. r.seen = r.called /\ r.floor = 0 /\ r.called <= seeds
  BY <1>1, <1>2 DEF SimInv, Seeding
<1>6. JudgedSoFar(r, author.sources, crashes)
  BY <1>1, <1>3 DEF SimInv, Verdicts
<1>7. PICK due : due = Without(id)
  OBVIOUS
<1>8. due \in Seq(Nat) /\ Distinct(due) /\ Elems(due) = Elems(settled) \ {id}
  <2>1. \E k \in DOMAIN settled : settled[k] = id
    BY <1>2 DEF Elems
  <2>2. PICK k : k = CHOOSE j \in DOMAIN settled : settled[j] = id
    OBVIOUS
  <2>3. k \in DOMAIN settled /\ settled[k] = id
    BY <2>1, <2>2
  <2>4. due = SubSeq(settled, 1, k - 1) \o SubSeq(settled, k + 1, Len(settled))
    BY <1>7, <2>2 DEF Without
  <2>5. settled \in Seq(Nat) /\ Distinct(settled)
    BY DEF SimInv, Typed, Placed
  <2> QED
    BY <2>3, <2>4, <2>5, CutElems
<1>9. PICK reads : reads = (r.outcome = "ok")
  OBVIOUS
<1>10. PICK verdict : verdict = IF r.outcome = "rejected" THEN "host"
                                ELSE manifestLegVerdict(r.source, reads)
  OBVIOUS
<1>11. PICK init : init = (reads /\ r.source.init)
  OBVIOUS
<1>12. PICK t : t = [r EXCEPT !.verdict = verdict, !.init = init, !.outcome = "none"]
  OBVIOUS
<1>13. RegisterAndConstruct(id, t, due) /\ UNCHANGED world
  BY <1>1, <1>7, <1>9, <1>10, <1>11, <1>12 DEF AfterManifest
<1>14. /\ verdict \in {"host", "policy", "meta", "valid"} /\ init \in BOOLEAN
       /\ verdict # "host" => r.outcome # "rejected" /\ verdict = manifestLegVerdict(r.source, reads)
  BY <1>10, <1>11 DEF manifestLegVerdict
<1>15. /\ t \in TaskRec /\ t.kind = "deploy" /\ t.outcome = "none" /\ t.read = {}
       /\ t.seen = t.called /\ t.floor = 0 /\ t.called <= seeds /\ t.source = r.source
       /\ t.verdict = verdict /\ t.init = init /\ t.blocks = r.blocks /\ t.params = r.params
  <2>1. t \in TaskRec
    BY <1>3, <1>12, <1>14, JudgedType
  <2>2. /\ t.kind = r.kind /\ t.outcome = "none" /\ t.read = r.read /\ t.seen = r.seen
        /\ t.called = r.called /\ t.floor = r.floor
    BY <1>3, <1>12 DEF TaskRec
  <2>3. /\ t.source = r.source /\ t.verdict = verdict /\ t.init = init
        /\ t.blocks = r.blocks /\ t.params = r.params
    BY <1>3, <1>12 DEF TaskRec
  <2> QED
    BY <1>3, <1>4, <1>5, <2>1, <2>2, <2>3
<1>16. r.source \in author.sources /\ block \in Nat /\ r.source.bannedFrom \in Nat
  BY <1>6, SimulatorAssumption DEF JudgedSoFar, SimInv, Typed
<1>17. author.awaits => \A u \in DOMAIN tasks : u # id => tasks[u].at = "done"
  BY <1>1, <1>3 DEF SimInv, OneByOne
<1>18. ASSUME t.verdict # "host", crashes = 0, NEW b, t.blocks \cup {block} = {b}
       PROVE  /\ t.verdict = ChainVerdict(t.source, t.params, b, "none")
              /\ t.verdict = "valid" => (t.init <=> t.source.reads /\ t.source.init)
  <2>1. b = block /\ \A c \in r.blocks : c = block
    BY <1>15, <1>18
  <2>2. r.blocks # {} /\ (\A c \in r.blocks : c < r.source.bannedFrom)
        /\ (r.outcome # "rejected" => (r.outcome = "ok" <=> r.source.reads))
    BY <1>2, <1>3, <1>6, <1>18 DEF JudgedSoFar
  <2>3. ~(b >= r.source.bannedFrom)
    BY <1>16, <2>1, <2>2
  <2>4. r.outcome # "rejected" /\ verdict = manifestLegVerdict(r.source, reads)
    BY <1>14, <1>15, <1>18
  <2>5. reads <=> r.source.reads
    BY <1>9, <2>2, <2>4
  <2>6. t.verdict = ChainVerdict(t.source, t.params, b, "none")
    BY <1>15, <2>1, <2>3, <2>4, <2>5
       DEF ChainVerdict, manifestLegVerdict, manifestPolicyError, contractMetaError,
           isContractMetaRequiredActive
  <2> QED
    BY <1>11, <1>15, <2>5, <2>6
<1>19. /\ id \in 1 .. Len(tasks) + 1
       /\ id \in DOMAIN tasks => tasks[id].leg = "manifest" /\ tasks[id].at = "settled"
       /\ t.source \in author.sources
  BY <1>1, <1>2, <1>3, <1>15, <1>16
<1>20. t.verdict # "host" /\ crashes = 0 =>
         \A b : t.blocks \cup {block} = {b} =>
           /\ t.verdict = ChainVerdict(t.source, t.params, b, "none")
           /\ t.verdict = "valid" => (t.init <=> t.source.reads /\ t.source.init)
  BY <1>18
<1> QED
  BY <1>8, <1>13, <1>15, <1>17, <1>19, <1>20, RegisterInv
-------------------------------------------------------------------------------
(***************************************************************************)
(* The executor's steps.                                                   *)
(***************************************************************************)
\* The head of the queue is serialised and goes to the worker.
LEMMA DispatchShape ==
  ASSUME SimInv, Dispatch
  PROVE  \E id, new :
           /\ OnlyTask(id, new) /\ id \in DOMAIN tasks /\ Same(new, tasks[id])
           /\ tasks[id].at = "waiting" /\ new.at = "inflight" /\ new.outcome = "none"
           /\ HasRead(new, tasks[id], objects, snapshot)
           /\ tasks[id].leg = "run" => snapshot # Unset
           /\ Marked(objects', objects, tasks[id], id, "none")
           /\ inflight = 0 /\ inflight' = id /\ mode # "in-process"
           /\ queue' \in Seq(Nat) /\ Distinct(queue')
           /\ Elems(queue') \subseteq Elems(queue) \ {id}
           /\ UNCHANGED <<world, registry, settled, held, snapshot, crashes>>
<1>1. queue \in Seq(Nat) /\ queue # <<>> /\ Distinct(queue) /\ inflight = 0 /\ ~SnapshotDue
      /\ Send(Head(queue))
  BY DEF Dispatch, SimInv, Typed, Placed
<1>2. PICK id : id = Head(queue)
  OBVIOUS
<1>3. /\ id \in Nat /\ id \in Elems(queue) /\ Tail(queue) \in Seq(Nat) /\ Distinct(Tail(queue))
      /\ Elems(Tail(queue)) \subseteq Elems(queue) \ {id}
  BY <1>1, <1>2, TailElems
<1>4. id \in DOMAIN tasks /\ tasks[id].at = "waiting" /\ tasks[id].outcome = "none"
  BY <1>3 DEF SimInv, Placed
<1>5. PICK t : t = tasks[id]
  OBVIOUS
<1>6. t \in TaskRec /\ DOMAIN tasks = 1 .. Len(tasks) /\ (t.leg = "run" => t.obj \in DOMAIN objects)
  BY <1>4, <1>5, ElementOfSeq, LenProperties DEF SimInv, Typed, Placed
<1>7. t.leg = "run" => snapshot # Unset
  BY <1>1, <1>2, <1>5 DEF SnapshotDue
<1>8. PICK read : read = IF t.leg = "manifest" THEN t.read ELSE objects[t.obj].state
  OBVIOUS
<1>9. /\ t.leg \in {"run", "manifest"} /\ blockSeeds \in Nat
      /\ (t.leg = "run" => read \in SUBSET Nat /\ snapshot \in Nat)
  <2>1. t.leg \in {"run", "manifest"}
    BY <1>6 DEF TaskRec
  <2>2. blockSeeds \in Nat /\ snapshot \in Nat \cup {Unset} /\ objects \in Seq(ObjectRec)
    BY DEF SimInv, Typed
  <2>3. ASSUME t.leg = "run" PROVE read \in SUBSET Nat
    <3>1. objects[t.obj] \in ObjectRec
      BY <1>6, <2>2, <2>3, ElementOfSeq, LenProperties
    <3> QED
      BY <1>8, <2>3, <3>1 DEF ObjectRec
  <2> QED
    BY <1>7, <2>1, <2>2, <2>3
<1>10. PICK new : new = [Reads(t, objects, snapshot) EXCEPT !.at = "inflight"]
  OBVIOUS
<1>11. /\ new \in TaskRec /\ Same(new, t) /\ new.at = "inflight" /\ new.outcome = "none"
       /\ HasRead(new, t, objects, snapshot)
  <2>1. CASE t.leg = "manifest"
    <3>1. new = [t EXCEPT !.at = "inflight"]
      BY <1>10, <2>1 DEF Reads
    <3> QED
      BY <1>4, <1>5, <1>6, <2>1, <3>1 DEF TaskRec, Same, HasRead, Unread
  <2>2. CASE t.leg = "run"
    <3>1. new = [[t EXCEPT !.read = read, !.seen = snapshot, !.floor = blockSeeds]
                    EXCEPT !.at = "inflight"]
      BY <1>8, <1>10, <2>2 DEF Reads
    <3>2. PICK seen, floor : seen = snapshot /\ floor = blockSeeds
      OBVIOUS
    <3>3. seen \in Nat /\ floor \in Nat /\ read \in SUBSET Nat
      BY <1>9, <2>2, <3>2
    <3>4. new = [t EXCEPT !.read = read, !.seen = seen, !.floor = floor, !.at = "inflight"]
      BY <1>6, <3>1, <3>2 DEF TaskRec
    <3>5. new \in TaskRec /\ Same(new, t) /\ new.at = "inflight" /\ new.outcome = "none"
          /\ new.read = read /\ new.seen = seen /\ new.floor = floor
      <4>1. t \in TaskRec /\ t.outcome = "none"
        BY <1>4, <1>5, <1>6
      <4>2. new \in TaskRec
        BY <3>3, <3>4, <4>1, ReadType
      <4>3. new.at = "inflight" /\ new.outcome = "none" /\ new.read = read /\ new.seen = seen
            /\ new.floor = floor
        BY <3>4, <4>1 DEF TaskRec
      <4>4. Same(new, t)
        BY <3>4, <4>1 DEF TaskRec, Same
      <4> QED
        BY <4>2, <4>3, <4>4
    <3> QED
      BY <1>8, <2>2, <3>2, <3>5 DEF HasRead
  <2> QED
    BY <1>9, <2>1, <2>2
<1>12. tasks' = [tasks EXCEPT ![id] = new]
  BY <1>1, <1>2, <1>5, <1>10 DEF Send
<1>13. OnlyTask(id, new)
  <2>1. tasks \in Seq(TaskRec) /\ id \in 1 .. Len(tasks) /\ Len(tasks) \in Nat
    BY <1>4, <1>6, LenProperties DEF SimInv, Typed
  <2>2. tasks' \in Seq(TaskRec) /\ DOMAIN tasks' = DOMAIN tasks
    BY <1>11, <1>12, <2>1
  <2>3. DOMAIN tasks = DOMAIN tasks \cup {id}
    BY <1>4
  <2>6. id # 0
    BY <2>1
  <2>4. tasks'[id] = new /\ \A v \in DOMAIN tasks : v # id => tasks'[v] = tasks[v]
    BY <1>4, <1>12
  <2>5. DOMAIN tasks' = DOMAIN tasks \cup {id}
    BY <2>2, <2>3
  <2> QED
    BY <1>3, <1>11, <2>2, <2>4, <2>5, <2>6 DEF OnlyTask
<1>14. Marked(objects', objects, t, id, "none")
  <2>1. objects' = MarkRead(objects, t)
    BY <1>1, <1>2, <1>5 DEF Send
  <2>2. objects \in Seq(ObjectRec) /\ Typed
    BY DEF SimInv, Typed
  <2> QED
    BY <1>6, <2>1, <2>2, MarkReadShape
<1>15. mode # "in-process"
  BY <1>1 DEF SimInv, Placed
<1>16. inflight' = id /\ queue' = Tail(queue)
       /\ UNCHANGED <<world, registry, settled, held, snapshot, crashes>>
  BY <1>1, <1>2 DEF Send
<1>17. /\ OnlyTask(id, new) /\ id \in DOMAIN tasks /\ Same(new, tasks[id])
       /\ tasks[id].at = "waiting" /\ new.at = "inflight" /\ new.outcome = "none"
       /\ HasRead(new, tasks[id], objects, snapshot)
       /\ tasks[id].leg = "run" => snapshot # Unset
       /\ Marked(objects', objects, tasks[id], id, "none")
  BY <1>4, <1>5, <1>7, <1>11, <1>13, <1>14
<1> QED
  BY <1>1, <1>3, <1>15, <1>16, <1>17

\* A run that is dispatched where none is live is the only live one.
LEMMA DispatchInv ==
  ASSUME SimInv, Dispatch
  PROVE  SimInv'
<1>1. PICK id, new :
           /\ OnlyTask(id, new) /\ id \in DOMAIN tasks /\ Same(new, tasks[id])
           /\ tasks[id].at = "waiting" /\ new.at = "inflight" /\ new.outcome = "none"
           /\ HasRead(new, tasks[id], objects, snapshot)
           /\ tasks[id].leg = "run" => snapshot # Unset
           /\ Marked(objects', objects, tasks[id], id, "none")
           /\ inflight = 0 /\ inflight' = id /\ mode # "in-process"
           /\ queue' \in Seq(Nat) /\ Distinct(queue')
           /\ Elems(queue') \subseteq Elems(queue) \ {id}
           /\ UNCHANGED <<world, registry, settled, held, snapshot, crashes>>
  BY DispatchShape
<1>2. PICK t : t = tasks[id]
  OBVIOUS
<1>3. /\ DOMAIN tasks' = DOMAIN tasks /\ tasks'[id] = new /\ tasks' \in Seq(TaskRec)
      /\ \A v \in DOMAIN tasks : v # id => tasks'[v] = tasks[v]
      /\ id \in Nat /\ id # 0 /\ t \in TaskRec
  <2>1. tasks \in Seq(TaskRec)
    BY DEF SimInv, Typed
  <2>2. t \in TaskRec
    BY <1>1, <1>2, <2>1, ElementOfSeq, LenProperties
  <2>3. DOMAIN tasks \cup {id} = DOMAIN tasks
    BY <1>1
  <2> QED
    BY <1>1, <2>2, <2>3 DEF OnlyTask
<1>4. /\ new.kind = t.kind /\ new.leg = t.leg /\ new.obj = t.obj /\ new.op = t.op
      /\ new.source = t.source /\ new.params = t.params /\ new.init = t.init
      /\ new.called = t.called /\ new.verdict = t.verdict /\ new.blocks = t.blocks
      /\ t.leg \in {"run", "manifest"}
  BY <1>1, <1>2, <1>3 DEF Same, TaskRec
<1>5. /\ author' = author /\ mode' = mode /\ block' = block /\ seeds' = seeds
      /\ blockSeeds' = blockSeeds /\ settled' = settled /\ snapshot' = snapshot /\ crashes' = crashes
      /\ contracts' = contracts
  BY <1>1 DEF world, registry
<1>6. /\ objects' \in Seq(ObjectRec) /\ DOMAIN objects' = DOMAIN objects /\ Len(objects') = Len(objects)
      /\ \A o \in DOMAIN objects :
           /\ objects'[o].state = objects[o].state /\ objects'[o].serial = objects[o].serial
           /\ objects'[o].overlapped => objects[o].overlapped \/ (t.leg = "run" /\ o = t.obj /\ Overlaps(t))
           /\ ~objects'[o].overlapped => ~objects[o].overlapped /\ ~(t.leg = "run" /\ o = t.obj /\ Overlaps(t))
  BY <1>1, <1>2 DEF Marked
<1>7. Typed'
  BY <1>1, <1>3, <1>5, <1>6 DEF SimInv, Typed
<1>8. Placed'
  <2>1. \A u \in Elems(queue') : u \in DOMAIN tasks' /\ tasks'[u].at = "waiting"
    BY <1>1, <1>3 DEF SimInv, Placed
  <2>2. Elems(settled') \subseteq DOMAIN tasks'
    BY <1>3, <1>5 DEF SimInv, Placed
  <2>3. ASSUME NEW u \in DOMAIN tasks'
        PROVE  /\ tasks'[u].at = "inflight" => u = inflight'
               /\ tasks'[u].at = "settled" <=> u \in Elems(settled')
               /\ tasks'[u].at \in {"waiting", "inflight"} => tasks'[u].outcome = "none"
               /\ tasks'[u].leg = "run" => tasks'[u].obj \in DOMAIN objects'
               /\ tasks'[u].leg = "manifest" => tasks'[u].kind = "deploy" /\ tasks'[u].at # "done"
    <3>1. /\ tasks[u].at = "inflight" => u = inflight
          /\ tasks[u].at = "settled" <=> u \in Elems(settled)
          /\ tasks[u].at \in {"waiting", "inflight"} => tasks[u].outcome = "none"
          /\ tasks[u].leg = "run" => tasks[u].obj \in DOMAIN objects
          /\ tasks[u].leg = "manifest" => tasks[u].kind = "deploy" /\ tasks[u].at # "done"
      BY <1>3 DEF SimInv, Placed
    <3>2. CASE u = id
      BY <1>1, <1>2, <1>3, <1>4, <1>5, <1>6, <3>1, <3>2
    <3>3. CASE u # id
      <4>1. tasks'[u] = tasks[u] /\ u # 0
        BY <1>3, <3>3, LenProperties DEF SimInv, Typed
      <4> QED
        BY <1>1, <1>5, <1>6, <3>1, <4>1
    <3> QED
      BY <3>2, <3>3
  <2>4. Distinct(settled') /\ inflight' \in DOMAIN tasks' /\ tasks'[inflight'].at = "inflight"
        /\ mode' # "in-process"
    BY <1>1, <1>3, <1>5 DEF SimInv, Placed
  <2> QED
    BY <1>1, <2>1, <2>2, <2>3, <2>4 DEF Placed
<1>9. \A o, u : Good(tasks, o, u) => Good(tasks', o, u)
  BY <1>1, <1>2, <1>3, <1>4 DEF Good, SimInv, Placed
<1>10. OwnEffects'
  <2>1. ASSUME NEW o \in DOMAIN objects', NEW u \in objects'[o].state \cup objects'[o].serial
        PROVE  Good(tasks', o, u)
    BY <1>6, <1>9 DEF SimInv, OwnEffects
  <2>2. ASSUME NEW v \in DOMAIN tasks', NEW u \in tasks'[v].read
        PROVE  tasks'[v].leg = "run" /\ Good(tasks', tasks'[v].obj, u)
    <3>1. CASE v # id
      BY <1>3, <1>9, <2>2, <3>1 DEF SimInv, OwnEffects
    <3>2. CASE v = id /\ t.leg = "manifest"
      <4>1. u \in t.read
        BY <1>1, <1>2, <1>3, <2>2, <3>2 DEF HasRead, Unread
      <4> QED
        BY <1>1, <1>2, <3>2, <4>1 DEF SimInv, OwnEffects
    <3>3. CASE v = id /\ t.leg = "run"
      <4>1. u \in objects[t.obj].state /\ t.obj \in DOMAIN objects
        BY <1>1, <1>2, <1>3, <2>2, <3>3 DEF HasRead, SimInv, Placed
      <4> QED
        BY <1>3, <1>4, <1>9, <3>3, <4>1 DEF SimInv, OwnEffects
    <3> QED
      BY <1>4, <3>1, <3>2, <3>3
  <2> QED
    BY <2>1, <2>2 DEF OwnEffects
<1>11. InTurn'
  <2> SUFFICES ASSUME NEW o \in DOMAIN objects', ~objects'[o].overlapped
               PROVE  Turn(tasks', objects'[o], o)
    BY DEF InTurn
  <2>1. o \in DOMAIN objects /\ Turn(tasks, objects[o], o)
        /\ ~(t.leg = "run" /\ o = t.obj /\ Overlaps(t))
    BY <1>6 DEF SimInv, InTurn
  <2>2. objects'[o].state = objects[o].state /\ objects'[o].serial = objects[o].serial
    BY <1>6, <2>1
  <2>3. \A u \in DOMAIN tasks : u # id => (Live(tasks', o, u) <=> Live(tasks, o, u))
    BY <1>3 DEF Live
  <2>4. ~Live(tasks, o, id)
    BY <1>1 DEF Live
  <2>5. CASE Live(tasks', o, id)
    <3>1. t.leg = "run" /\ t.obj = o /\ ~Overlaps(t)
      BY <1>3, <1>4, <2>1, <2>5 DEF Live
    <3>2. ASSUME NEW u \in DOMAIN tasks, Live(tasks, o, u) PROVE FALSE
      <4>1. tasks[u].at # "inflight"
        BY <1>1, LenProperties DEF SimInv, Placed, Typed
      <4>2. u \in Elems(settled) /\ tasks[u].outcome = "ok" /\ tasks[u].leg = "run" /\ tasks[u].obj = o
        BY <3>2, <4>1 DEF Live, SimInv, Placed
      <4> QED
        BY <3>1, <4>2 DEF Overlaps
    <3>3. objects[o].serial = objects[o].state
      BY <2>1, <3>2 DEF Turn
    <3>4. new.read = objects[o].state
      BY <1>1, <1>2, <3>1 DEF HasRead
    <3>5. \A u \in DOMAIN tasks' : Live(tasks', o, u) => u = id
      BY <1>3, <2>3, <3>2
    <3> QED
      BY <1>1, <1>3, <2>2, <2>5, <3>3, <3>4, <3>5 DEF Turn
  <2>6. CASE ~Live(tasks', o, id)
    <3>1. \A u \in DOMAIN tasks' : Live(tasks', o, u) =>
             u \in DOMAIN tasks /\ Live(tasks, o, u) /\ tasks'[u] = tasks[u]
      BY <1>3, <2>3, <2>6
    <3>2. (\A u \in DOMAIN tasks' : ~Live(tasks', o, u)) => \A u \in DOMAIN tasks : ~Live(tasks, o, u)
      BY <1>3, <2>3, <2>4
    <3> QED
      BY <2>1, <2>2, <3>1, <3>2 DEF Turn
  <2> QED
    BY <2>5, <2>6
<1>12. OneByOne'
  <2> SUFFICES ASSUME author.awaits
               PROVE  /\ \A u, v \in DOMAIN tasks' : tasks'[u].at # "done" /\ tasks'[v].at # "done" => u = v
                      /\ \A o \in DOMAIN objects' : ~objects'[o].overlapped
    BY <1>5 DEF OneByOne
  <2>1. \A u \in DOMAIN tasks : tasks[u].at # "done" => u = id
    BY <1>1 DEF SimInv, OneByOne
  <2>2. ~Overlaps(t)
    <3> SUFFICES ASSUME NEW u \in Elems(settled) PROVE FALSE
      BY DEF Overlaps
    <3>1. u \in DOMAIN tasks /\ tasks[u].at = "settled"
      BY DEF SimInv, Placed
    <3> QED
      BY <1>1, <2>1, <3>1
  <2>3. \A o \in DOMAIN objects' : ~objects'[o].overlapped
    BY <1>6, <2>2 DEF SimInv, OneByOne
  <2> QED
    BY <1>3, <2>1, <2>3
<1>13. Verdicts'
  <2> SUFFICES ASSUME NEW u \in DOMAIN tasks', tasks'[u].kind = "deploy"
               PROVE  JudgedSoFar(tasks'[u], author.sources, crashes)
    BY <1>5 DEF Verdicts
  <2>1. CASE u # id
    BY <1>3, <2>1 DEF SimInv, Verdicts
  <2>2. CASE u = id
    <3>1. JudgedSoFar(t, author.sources, crashes)
      BY <1>2, <1>3, <1>4, <2>2 DEF SimInv, Verdicts
    <3>2. tasks'[u] = new
      BY <1>3, <2>2
    <3>3. t.at # "done" /\ new.at # "done" /\ new.at # "settled"
      BY <1>1, <1>2
    <3>4. new.source \in author.sources
      BY <1>4, <3>1 DEF JudgedSoFar
    <3>5. new.leg = "manifest" =>
            /\ new.verdict = "valid" /\ ~new.init
            /\ new.blocks # {} /\ \A b \in new.blocks : new.blocks = {b} /\ b < new.source.bannedFrom
      BY <1>4, <3>1 DEF JudgedSoFar
    <3>6. ASSUME new.leg = "run", new.verdict # "host", crashes = 0, NEW b \in new.blocks, new.blocks = {b}
          PROVE  /\ new.verdict = ChainVerdict(new.source, new.params, b, "none")
                 /\ new.verdict = "valid" => Constructs(new, b)
      <4>1. /\ t.verdict = ChainVerdict(t.source, t.params, b, "none")
            /\ t.verdict = "valid" => Constructs(t, b)
        BY <1>4, <3>1, <3>3, <3>6 DEF JudgedSoFar
      <4> QED
        BY <1>4, <4>1 DEF Constructs
    <3> QED
      BY <3>2, <3>3, <3>4, <3>5, <3>6 DEF JudgedSoFar
  <2> QED
    BY <2>1, <2>2
<1>14. Seeding'
  <2>1. /\ blockSeeds <= seeds /\ blockSeeds \in Nat /\ seeds \in Nat
        /\ snapshot # Unset => blockSeeds <= snapshot /\ snapshot <= seeds
    BY DEF SimInv, Seeding, Typed
  <2>2. /\ t.called <= seeds /\ t.seen = t.called /\ t.floor = 0 /\ t.called \in Nat
    BY <1>1, <1>2, <1>3 DEF SimInv, Seeding, TaskRec
  <2>3. ASSUME NEW u \in DOMAIN tasks'
        PROVE  /\ tasks'[u].called <= seeds
               /\ tasks'[u].leg = "manifest" \/ tasks'[u].at = "waiting" =>
                    tasks'[u].seen = tasks'[u].called /\ tasks'[u].floor = 0
               /\ tasks'[u].leg = "run" /\ tasks'[u].at # "waiting" /\ tasks'[u].outcome # "rejected" =>
                    tasks'[u].seen >= IF mode = "in-process" THEN tasks'[u].called ELSE tasks'[u].floor
    <3>1. CASE u # id
      BY <1>3, <3>1 DEF SimInv, Seeding, SeedsVisible
    <3>2. CASE u = id /\ t.leg = "manifest"
      BY <1>1, <1>2, <1>3, <1>4, <2>2, <3>2 DEF HasRead, Unread
    <3>3. CASE u = id /\ t.leg = "run"
      <4>1. new.seen = snapshot /\ new.floor = blockSeeds /\ snapshot # Unset
        BY <1>1, <1>2, <3>3 DEF HasRead
      <4>2. snapshot \in Nat
        BY <4>1 DEF SimInv, Typed
      <4> QED
        BY <1>1, <1>3, <1>4, <2>1, <2>2, <3>3, <4>1, <4>2
    <3> QED
      BY <1>4, <3>1, <3>2, <3>3
  <2> QED
    BY <1>5, <2>1, <2>3 DEF Seeding, SeedsVisible
<1> QED
  BY <1>7, <1>8, <1>10, <1>11, <1>12, <1>13, <1>14 DEF SimInv
\* Executions that end together: the ones in the set, of which no queued one ran.
Concluded(gone) ==
    /\ gone \subseteq DOMAIN tasks
    /\ \A v \in gone : v = inflight \/ v \in Elems(queue)
    /\ inflight # 0 => inflight \in gone
    /\ inflight' = 0
    /\ tasks' \in Seq(TaskRec) /\ DOMAIN tasks' = DOMAIN tasks
    /\ \A v \in DOMAIN tasks :
         /\ v \notin gone => tasks'[v] = tasks[v]
         /\ v \in gone => /\ Same(tasks'[v], tasks[v]) /\ Unread(tasks'[v], tasks[v])
                          /\ tasks'[v].at = "settled"
                          /\ tasks'[v].outcome = "rejected" \/ v = inflight
                          /\ crashes' = 0 /\ tasks[v].leg = "manifest" /\ tasks'[v].outcome # "rejected"
                               => (tasks'[v].outcome = "ok" <=> tasks[v].source.reads)
    /\ settled' \in Seq(Nat) /\ Distinct(settled') /\ Elems(settled') = Elems(settled) \cup gone
    /\ queue' \in Seq(Nat) /\ Distinct(queue') /\ Elems(queue') \subseteq Elems(queue) \ gone
    /\ mode = "in-process" => queue' = <<>>
    /\ objects' \in Seq(ObjectRec) /\ DOMAIN objects' = DOMAIN objects /\ Len(objects') = Len(objects)
    /\ \A o \in DOMAIN objects :
         /\ objects'[o].state = objects[o].state /\ objects'[o].overlapped = objects[o].overlapped
         /\ objects'[o].serial =
              IF /\ inflight # 0 /\ tasks[inflight].leg = "run" /\ tasks[inflight].obj = o
                 /\ tasks'[inflight].outcome = "ok"
              THEN Apply(tasks[inflight].op, inflight, objects[o].serial) ELSE objects[o].serial
    /\ crashes' \in Nat /\ (crashes' = 0 => crashes = 0)
    /\ snapshot' \in {snapshot, Unset}
    /\ UNCHANGED <<author, mode, block, seeds, blockSeeds, contracts>>

\* Where the tasks that end come from.
LEMMA ConcludedTasks ==
  ASSUME SimInv, NEW gone, Concluded(gone), NEW v \in DOMAIN tasks, NEW new, new = tasks'[v]
  PROVE  /\ v # 0
         /\ v \notin gone => new = tasks[v] /\ tasks[v].at # "inflight"
         /\ v \in gone =>
              /\ tasks[v].at \in {"waiting", "inflight"} /\ tasks[v].outcome = "none"
              /\ v = inflight => tasks[v].at = "inflight"
              /\ v # inflight => tasks[v].at = "waiting" /\ new.outcome = "rejected"
              /\ new.at = "settled"
              /\ new.kind = tasks[v].kind /\ new.leg = tasks[v].leg /\ new.obj = tasks[v].obj
              /\ new.op = tasks[v].op /\ new.source = tasks[v].source
              /\ new.params = tasks[v].params /\ new.init = tasks[v].init
              /\ new.called = tasks[v].called /\ new.verdict = tasks[v].verdict
              /\ new.blocks = tasks[v].blocks
              /\ new.read = tasks[v].read /\ new.seen = tasks[v].seen /\ new.floor = tasks[v].floor
<1>1. v # 0
  BY LenProperties DEF SimInv, Typed
<1>2. ASSUME v \notin gone PROVE new = tasks[v] /\ tasks[v].at # "inflight"
  <2>1. new = tasks[v] /\ (inflight # 0 => inflight \in gone)
    BY <1>2 DEF Concluded
  <2>2. tasks[v].at = "inflight" => v = inflight
    BY DEF SimInv, Placed
  <2> QED
    BY <1>1, <1>2, <2>1, <2>2
<1>3. ASSUME v \in gone
      PROVE  /\ tasks[v].at \in {"waiting", "inflight"} /\ tasks[v].outcome = "none"
             /\ v = inflight => tasks[v].at = "inflight"
             /\ v # inflight => tasks[v].at = "waiting" /\ new.outcome = "rejected"
  <2>1. /\ v = inflight \/ v \in Elems(queue)
        /\ v # inflight => new.outcome = "rejected"
    BY <1>3 DEF Concluded
  <2>2. v = inflight => tasks[v].at = "inflight"
    BY <1>1 DEF SimInv, Placed
  <2>3. v \in Elems(queue) => tasks[v].at = "waiting"
    BY DEF SimInv, Placed
  <2>4. tasks[v].at \in {"waiting", "inflight"} => tasks[v].outcome = "none"
    BY DEF SimInv, Placed
  <2> QED
    BY <2>1, <2>2, <2>3, <2>4
<1>4. v \in gone => new.at = "settled" /\ Same(new, tasks[v]) /\ Unread(new, tasks[v])
  BY DEF Concluded
<1> QED
  BY <1>1, <1>2, <1>3, <1>4 DEF Same, Unread

\* The live runs after it were live before.
LEMMA ConcludedLive ==
  ASSUME SimInv, NEW gone, Concluded(gone), NEW o, NEW v \in DOMAIN tasks
  PROVE  /\ Live(tasks', o, v) => Live(tasks, o, v)
         /\ Live(tasks', o, v) /\ v \in gone => v = inflight /\ tasks'[v].outcome = "ok"
         /\ Live(tasks, o, v) /\ ~Live(tasks', o, v) => v = inflight /\ tasks'[v].outcome # "ok"
<1>1. PICK new : new = tasks'[v]
  OBVIOUS
<1>2. CASE v \notin gone
  <2>1. new = tasks[v]
    BY <1>1, <1>2, ConcludedTasks
  <2> QED
    BY <1>1, <1>2, <2>1 DEF Live
<1>3. CASE v \in gone
  <2>1. /\ new.leg = tasks[v].leg /\ new.obj = tasks[v].obj /\ new.at = "settled"
        /\ v = inflight => tasks[v].at = "inflight"
        /\ v # inflight => tasks[v].at = "waiting" /\ new.outcome = "rejected"
    BY <1>1, <1>3, ConcludedTasks
  <2> QED
    BY <1>1, <2>1 DEF Live
<1> QED
  BY <1>2, <1>3

\* A run that ends well is the head of its object's history; one that fails leaves it.
LEMMA ConcludedInTurn ==
  ASSUME SimInv, NEW gone, Concluded(gone)
  PROVE  InTurn'
<1> SUFFICES ASSUME NEW o \in DOMAIN objects', ~objects'[o].overlapped
             PROVE  Turn(tasks', objects'[o], o)
  BY DEF InTurn
<1>1. /\ o \in DOMAIN objects /\ objects'[o].state = objects[o].state
      /\ objects'[o].overlapped = objects[o].overlapped
      /\ DOMAIN tasks' = DOMAIN tasks
  BY DEF Concluded
<1>2. Turn(tasks, objects[o], o)
  BY <1>1 DEF SimInv, InTurn
<1> DEFINE well == /\ inflight # 0 /\ tasks[inflight].leg = "run" /\ tasks[inflight].obj = o
                   /\ tasks'[inflight].outcome = "ok"
<1>3. objects'[o].serial = IF well THEN Apply(tasks[inflight].op, inflight, objects[o].serial)
                           ELSE objects[o].serial
  BY <1>1 DEF Concluded
<1>4. well => inflight \in DOMAIN tasks /\ inflight \in gone /\ Live(tasks, o, inflight)
              /\ Live(tasks', o, inflight)
  <2> SUFFICES ASSUME well
               PROVE  inflight \in DOMAIN tasks /\ inflight \in gone /\ Live(tasks, o, inflight)
                      /\ Live(tasks', o, inflight)
    OBVIOUS
  <2>1. inflight \in DOMAIN tasks /\ inflight \in gone /\ tasks[inflight].at = "inflight"
    BY DEF SimInv, Placed, Concluded
  <2>2. PICK new : new = tasks'[inflight]
    OBVIOUS
  <2>3. new.at = "settled" /\ new.leg = tasks[inflight].leg /\ new.obj = tasks[inflight].obj
    BY <2>1, <2>2, ConcludedTasks
  <2> QED
    BY <2>1, <2>2, <2>3 DEF Live
<1>5. \A u, v \in DOMAIN tasks : Live(tasks, o, u) /\ Live(tasks, o, v) => u = v
  BY <1>2 DEF Turn
<1>6. \A u, v \in DOMAIN tasks' : Live(tasks', o, u) /\ Live(tasks', o, v) => u = v
  BY <1>1, <1>5, ConcludedLive
<1>7. ASSUME NEW u \in DOMAIN tasks', Live(tasks', o, u)
      PROVE  /\ tasks'[u].read = objects[o].state
             /\ objects'[o].serial = IF tasks'[u].at = "settled"
                                     THEN Apply(tasks'[u].op, u, objects[o].state) ELSE objects[o].state
  <2>1. u \in DOMAIN tasks /\ Live(tasks, o, u)
    BY <1>1, <1>7, ConcludedLive
  <2>2. /\ tasks[u].read = objects[o].state
        /\ objects[o].serial = IF tasks[u].at = "settled" THEN Apply(tasks[u].op, u, objects[o].state)
                               ELSE objects[o].state
    BY <1>2, <2>1 DEF Turn
  <2>3. PICK new : new = tasks'[u]
    OBVIOUS
  <2>4. CASE u \in gone
    <3>1. u = inflight /\ new.outcome = "ok"
      BY <1>7, <2>1, <2>3, <2>4, ConcludedLive
    <3>2. u # 0 /\ tasks[u].at = "inflight" /\ new.at = "settled" /\ new.op = tasks[u].op
          /\ new.read = tasks[u].read
      BY <2>1, <2>3, <2>4, <3>1, ConcludedTasks
    <3>3. well
      BY <2>1, <2>3, <3>1, <3>2 DEF Live
    <3> QED
      BY <1>3, <2>2, <2>3, <3>1, <3>2, <3>3
  <2>5. CASE u \notin gone
    <3>1. tasks'[u] = tasks[u]
      BY <2>1, <2>5 DEF Concluded
    <3>2. ~well
      BY <1>4, <1>5, <2>1, <2>5
    <3> QED
      BY <1>3, <2>2, <3>1, <3>2
  <2> QED
    BY <2>4, <2>5
<1>8. ASSUME \A u \in DOMAIN tasks' : ~Live(tasks', o, u)
      PROVE  objects'[o].serial = objects[o].state
  <2>1. ~well
    BY <1>1, <1>4, <1>8
  <2>2. CASE \A u \in DOMAIN tasks : ~Live(tasks, o, u)
    BY <1>2, <1>3, <2>1, <2>2 DEF Turn
  <2>3. CASE \E u \in DOMAIN tasks : Live(tasks, o, u)
    <3>1. PICK u \in DOMAIN tasks : Live(tasks, o, u)
      BY <2>3
    <3>2. u = inflight
      BY <1>1, <1>8, <3>1, ConcludedLive
    <3>3. tasks[u].at = "inflight"
      BY <3>1, <3>2, LenProperties DEF SimInv, Placed, Typed
    <3> QED
      BY <1>2, <1>3, <2>1, <3>1, <3>3 DEF Turn
  <2> QED
    BY <2>2, <2>3
<1> QED
  BY <1>1, <1>6, <1>7, <1>8 DEF Turn

\* Executions that end keep the whole invariant.
LEMMA ConcludedInv ==
  ASSUME SimInv, NEW gone, Concluded(gone)
  PROVE  SimInv'
<1>1. Typed'
  <2>1. snapshot' \in Nat \cup {Unset} /\ author' = author /\ mode' = mode /\ block' = block
        /\ seeds' = seeds /\ blockSeeds' = blockSeeds /\ contracts' = contracts
    BY DEF Concluded, SimInv, Typed
  <2>2. /\ objects' \in Seq(ObjectRec) /\ tasks' \in Seq(TaskRec) /\ queue' \in Seq(Nat)
        /\ settled' \in Seq(Nat) /\ inflight' = 0 /\ crashes' \in Nat /\ Len(objects') = Len(objects)
    BY DEF Concluded
  <2> QED
    BY <2>1, <2>2 DEF SimInv, Typed
<1>2. /\ DOMAIN tasks' = DOMAIN tasks /\ DOMAIN objects' = DOMAIN objects
      /\ Elems(settled') = Elems(settled) \cup gone /\ gone \subseteq DOMAIN tasks
      /\ author' = author /\ mode' = mode /\ seeds' = seeds /\ blockSeeds' = blockSeeds
      /\ (crashes' = 0 => crashes = 0)
  BY DEF Concluded
<1>3. Placed'
  <2>1. Distinct(queue') /\ Distinct(settled') /\ inflight' = 0
        /\ (mode' = "in-process" => queue' = <<>>)
    BY <1>2 DEF Concluded
  <2>2. ASSUME NEW u \in Elems(queue') PROVE u \in DOMAIN tasks' /\ tasks'[u].at = "waiting"
    <3>1. u \in Elems(queue) /\ u \notin gone
      BY DEF Concluded
    <3>2. u \in DOMAIN tasks /\ tasks[u].at = "waiting"
      BY <3>1 DEF SimInv, Placed
    <3> QED
      BY <3>1, <3>2 DEF Concluded
  <2>3. Elems(settled') \subseteq DOMAIN tasks'
    BY <1>2 DEF SimInv, Placed
  <2>4. ASSUME NEW u \in DOMAIN tasks'
        PROVE  /\ tasks'[u].at = "inflight" => u = inflight'
               /\ tasks'[u].at = "settled" <=> u \in Elems(settled')
               /\ tasks'[u].at \in {"waiting", "inflight"} => tasks'[u].outcome = "none"
               /\ tasks'[u].leg = "run" => tasks'[u].obj \in DOMAIN objects'
               /\ tasks'[u].leg = "manifest" => tasks'[u].kind = "deploy" /\ tasks'[u].at # "done"
    <3>1. /\ tasks[u].at = "settled" <=> u \in Elems(settled)
          /\ tasks[u].at \in {"waiting", "inflight"} => tasks[u].outcome = "none"
          /\ tasks[u].leg = "run" => tasks[u].obj \in DOMAIN objects
          /\ tasks[u].leg = "manifest" => tasks[u].kind = "deploy" /\ tasks[u].at # "done"
      BY <1>2 DEF SimInv, Placed
    <3>2. PICK new : new = tasks'[u]
      OBVIOUS
    <3>3. u \notin gone => new = tasks[u] /\ tasks[u].at # "inflight"
      BY <1>2, <3>2, ConcludedTasks
    <3>4. u \in gone => new.at = "settled" /\ new.leg = tasks[u].leg /\ new.obj = tasks[u].obj
                        /\ new.kind = tasks[u].kind
      BY <1>2, <3>2, ConcludedTasks
    <3> QED
      BY <1>2, <3>1, <3>2, <3>3, <3>4
  <2> QED
    BY <2>1, <2>2, <2>3, <2>4 DEF Placed
<1>4. ASSUME NEW o, NEW u, Good(tasks, o, u) PROVE Good(tasks', o, u)
  <2>1. u \in DOMAIN tasks /\ u \notin gone
    BY <1>4, ConcludedTasks DEF Good
  <2>2. tasks'[u] = tasks[u]
    BY <2>1 DEF Concluded
  <2> QED
    BY <1>2, <1>4, <2>1, <2>2 DEF Good
<1>5. OwnEffects'
  <2>1. ASSUME NEW o \in DOMAIN objects', NEW u \in objects'[o].state \cup objects'[o].serial
        PROVE  Good(tasks', o, u)
    <3>1. /\ objects'[o].state = objects[o].state
          /\ objects'[o].serial =
              IF /\ inflight # 0 /\ tasks[inflight].leg = "run" /\ tasks[inflight].obj = o
                 /\ tasks'[inflight].outcome = "ok"
              THEN Apply(tasks[inflight].op, inflight, objects[o].serial) ELSE objects[o].serial
      BY <1>2 DEF Concluded
    <3>2. \A w \in objects[o].state \cup objects[o].serial : Good(tasks', o, w)
      BY <1>2, <1>4 DEF SimInv, OwnEffects
    <3>3. CASE /\ inflight # 0 /\ tasks[inflight].leg = "run" /\ tasks[inflight].obj = o
               /\ tasks'[inflight].outcome = "ok"
      <4>1. inflight \in DOMAIN tasks /\ inflight \in gone
        BY <3>3 DEF SimInv, Placed, Concluded
      <4>2. PICK new : new = tasks'[inflight]
        OBVIOUS
      <4>3. new.leg = "run" /\ new.obj = o
        BY <3>3, <4>1, <4>2, ConcludedTasks
      <4>4. Good(tasks', o, inflight)
        BY <1>2, <3>3, <4>1, <4>2, <4>3 DEF Good
      <4>5. u \in objects[o].state \cup objects[o].serial \/ u = inflight
        BY <2>1, <3>1, <3>3 DEF Apply
      <4> QED
        BY <3>2, <4>4, <4>5
    <3>4. CASE ~(/\ inflight # 0 /\ tasks[inflight].leg = "run" /\ tasks[inflight].obj = o
                 /\ tasks'[inflight].outcome = "ok")
      BY <2>1, <3>1, <3>2, <3>4
    <3> QED
      BY <3>3, <3>4
  <2>2. ASSUME NEW v \in DOMAIN tasks', NEW u \in tasks'[v].read
        PROVE  tasks'[v].leg = "run" /\ Good(tasks', tasks'[v].obj, u)
    <3>1. PICK new : new = tasks'[v]
      OBVIOUS
    <3>2. new.read = tasks[v].read /\ new.leg = tasks[v].leg /\ new.obj = tasks[v].obj
      BY <1>2, <3>1, ConcludedTasks
    <3>3. tasks[v].leg = "run" /\ Good(tasks, tasks[v].obj, u)
      BY <1>2, <2>2, <3>1, <3>2 DEF SimInv, OwnEffects
    <3> QED
      BY <1>4, <3>1, <3>2, <3>3
  <2> QED
    BY <2>1, <2>2 DEF OwnEffects
<1>6. OneByOne'
  <2> SUFFICES ASSUME author.awaits
               PROVE  /\ \A u, v \in DOMAIN tasks' : tasks'[u].at # "done" /\ tasks'[v].at # "done" => u = v
                      /\ \A o \in DOMAIN objects' : ~objects'[o].overlapped
    BY <1>2 DEF OneByOne
  <2>1. ASSUME NEW u \in DOMAIN tasks', tasks'[u].at # "done" PROVE tasks[u].at # "done"
    BY <1>2, <2>1, ConcludedTasks
  <2>2. \A o \in DOMAIN objects' : ~objects'[o].overlapped
    BY <1>2 DEF SimInv, OneByOne, Concluded
  <2> QED
    BY <1>2, <2>1, <2>2 DEF SimInv, OneByOne
<1>7. Verdicts'
  <2> SUFFICES ASSUME NEW u \in DOMAIN tasks', tasks'[u].kind = "deploy"
               PROVE  JudgedSoFar(tasks'[u], author.sources, crashes')
    BY <1>2 DEF Verdicts
  <2>1. PICK new : new = tasks'[u]
    OBVIOUS
  <2>2. PICK t : t = tasks[u]
    OBVIOUS
  <2>3. t.kind = "deploy"
    BY <1>2, <2>1, <2>2, ConcludedTasks
  <2>4. JudgedSoFar(t, author.sources, crashes)
    BY <1>2, <2>2, <2>3 DEF SimInv, Verdicts
  <2>5. CASE u \notin gone
    <3>1. new = t
      BY <1>2, <2>1, <2>2, <2>5, ConcludedTasks
    <3> QED
      BY <1>2, <2>1, <2>4, <3>1 DEF JudgedSoFar
  <2>6. CASE u \in gone
    <3>1. /\ t.at # "done" /\ new.at = "settled" /\ new.leg = t.leg /\ new.source = t.source
          /\ new.params = t.params /\ new.init = t.init /\ new.verdict = t.verdict
          /\ new.blocks = t.blocks
      BY <1>2, <2>1, <2>2, <2>6, ConcludedTasks
    <3>2. crashes' = 0 /\ t.leg = "manifest" /\ new.outcome # "rejected"
            => (new.outcome = "ok" <=> t.source.reads)
      BY <1>2, <2>1, <2>2, <2>6 DEF Concluded
    <3>3. new.source \in author.sources
      BY <2>4, <3>1 DEF JudgedSoFar
    <3>4. new.leg = "manifest" =>
            /\ new.verdict = "valid" /\ ~new.init
            /\ new.blocks # {} /\ \A b \in new.blocks : new.blocks = {b} /\ b < new.source.bannedFrom
      BY <2>4, <3>1 DEF JudgedSoFar
    <3>5. ASSUME new.leg = "run", new.verdict # "host", crashes' = 0, NEW b \in new.blocks, new.blocks = {b}
          PROVE  /\ new.verdict = ChainVerdict(new.source, new.params, b, "none")
                 /\ new.verdict = "valid" => Constructs(new, b)
      <4>1. /\ t.verdict = ChainVerdict(t.source, t.params, b, "none")
            /\ t.verdict = "valid" => Constructs(t, b)
        BY <1>2, <2>4, <3>1, <3>5 DEF JudgedSoFar
      <4> QED
        BY <3>1, <4>1 DEF Constructs
    <3>6. JudgedSoFar(new, author.sources, crashes')
      BY <3>1, <3>2, <3>3, <3>4, <3>5 DEF JudgedSoFar
    <3> QED
      BY <2>1, <3>6
  <2> QED
    BY <2>5, <2>6
<1>8. Seeding'
  <2>1. /\ blockSeeds' <= seeds'
        /\ snapshot' # Unset => blockSeeds' <= snapshot' /\ snapshot' <= seeds'
    BY <1>2 DEF SimInv, Seeding, Concluded
  <2>2. ASSUME NEW u \in DOMAIN tasks'
        PROVE  /\ tasks'[u].called <= seeds'
               /\ tasks'[u].leg = "manifest" \/ tasks'[u].at = "waiting" =>
                    tasks'[u].seen = tasks'[u].called /\ tasks'[u].floor = 0
               /\ tasks'[u].leg = "run" /\ tasks'[u].at # "waiting" /\ tasks'[u].outcome # "rejected" =>
                    tasks'[u].seen >= IF mode' = "in-process" THEN tasks'[u].called ELSE tasks'[u].floor
    <3>1. PICK new : new = tasks'[u]
      OBVIOUS
    <3>2. PICK t : t = tasks[u]
      OBVIOUS
    <3>3. /\ t.called <= seeds
          /\ t.leg = "manifest" \/ t.at = "waiting" => t.seen = t.called /\ t.floor = 0
          /\ t.leg = "run" /\ t.at # "waiting" /\ t.outcome # "rejected" =>
               t.seen >= IF mode = "in-process" THEN t.called ELSE t.floor
      BY <1>2, <3>2 DEF SimInv, Seeding, SeedsVisible
    <3>4. \/ new = t
          \/ /\ new.called = t.called /\ new.seen = t.seen /\ new.floor = t.floor /\ new.leg = t.leg
             /\ new.at = "settled"
             /\ new.outcome = "rejected" \/ (t.at = "inflight" /\ t.outcome = "none")
      BY <1>2, <3>1, <3>2, ConcludedTasks
    <3> QED
      BY <1>2, <3>1, <3>3, <3>4
  <2> QED
    BY <2>1, <2>2 DEF Seeding, SeedsVisible
<1> QED
  BY <1>1, <1>3, <1>5, <1>6, <1>7, <1>8, ConcludedInTurn DEF SimInv
\* A task that ends is the record it was, with an end.
LEMMA EndsShape ==
  ASSUME NEW t \in TaskRec, NEW outcome \in {"ok", "failed", "rejected"}, NEW new, new = Ends(t, outcome)
  PROVE  /\ new \in TaskRec /\ Same(new, t) /\ Unread(new, t)
         /\ new.at = "settled" /\ new.outcome = outcome
  BY DEF Ends, TaskRec, Same, Unread

\* The worker's answer.
LEMMA ReplyInv ==
  ASSUME SimInv, Reply
  PROVE  SimInv'
<1>1. PICK outcome \in Outcomes(tasks[inflight]) : Settle(outcome)
  BY DEF Reply
<1>2. /\ inflight # 0 /\ UNCHANGED <<world, registry, queue, held, snapshot, crashes>>
  BY DEF Reply
<1>3. PICK id : id = inflight
  OBVIOUS
<1>4. id \in DOMAIN tasks /\ tasks[id].at = "inflight" /\ id \in Nat
  BY <1>2, <1>3 DEF SimInv, Placed, Typed
<1>5. PICK t : t = tasks[id]
  OBVIOUS
<1>6. tasks \in Seq(TaskRec) /\ settled \in Seq(Nat) /\ objects \in Seq(ObjectRec) /\ queue \in Seq(Nat)
  BY DEF SimInv, Typed
<1>7. t \in TaskRec
  BY <1>4, <1>5, <1>6, ElementOfSeq, LenProperties
<1>8. outcome \in {"ok", "failed", "rejected"}
      /\ (t.leg = "manifest" /\ outcome # "rejected" => (outcome = "ok" <=> t.source.reads))
  BY <1>1, <1>3, <1>5 DEF Outcomes
<1>9. PICK new : new = Ends(t, outcome)
  OBVIOUS
<1>10. /\ new \in TaskRec /\ Same(new, t) /\ Unread(new, t)
       /\ new.at = "settled" /\ new.outcome = outcome
  BY <1>7, <1>8, <1>9, EndsShape
<1>11. tasks' = [tasks EXCEPT ![id] = new] /\ objects' = MarkEnd(objects, t, id, outcome)
       /\ settled' = Append(settled, id) /\ inflight' = 0
  BY <1>1, <1>3, <1>5, <1>9 DEF Settle
<1>12. tasks' \in Seq(TaskRec) /\ DOMAIN tasks' = DOMAIN tasks /\ tasks'[id] = new
       /\ \A v \in DOMAIN tasks : v # id => tasks'[v] = tasks[v]
  BY <1>4, <1>6, <1>10, <1>11
<1>13. t.leg = "run" => t.obj \in DOMAIN objects
  BY <1>4, <1>5 DEF SimInv, Placed
<1>14. /\ objects' \in Seq(ObjectRec) /\ DOMAIN objects' = DOMAIN objects /\ Len(objects') = Len(objects)
       /\ \A o \in DOMAIN objects :
            /\ objects'[o].state = objects[o].state
            /\ objects'[o].overlapped = objects[o].overlapped
            /\ objects'[o].serial = IF t.leg = "run" /\ o = t.obj /\ outcome = "ok"
                              THEN Apply(t.op, id, objects[o].serial) ELSE objects[o].serial
  BY <1>4, <1>6, <1>7, <1>11, <1>13, MarkEndShape DEF SimInv
<1>15. /\ settled' \in Seq(Nat) /\ Distinct(settled') /\ Elems(settled') = Elems(settled) \cup {id}
  <2>1. Distinct(settled) /\ id \notin Elems(settled)
    BY <1>4 DEF SimInv, Placed
  <2>2. /\ Append(settled, id) \in Seq(Nat) /\ Elems(Append(settled, id)) = Elems(settled) \cup {id}
        /\ Distinct(settled) /\ id \notin Elems(settled) => Distinct(Append(settled, id))
    BY <1>4, <1>6, AppendElems
  <2>3. settled' = Append(settled, id)
    BY <1>11
  <2> QED
    BY <2>1, <2>2, <2>3
<1>16. /\ queue' \in Seq(Nat) /\ Distinct(queue') /\ Elems(queue') \subseteq Elems(queue) \ {id}
       /\ mode = "in-process" => queue' = <<>>
  <2>1. queue' = queue /\ id \notin Elems(queue)
    BY <1>2, <1>4 DEF SimInv, Placed
  <2> QED
    BY <1>6, <2>1 DEF SimInv, Placed
<1>17. /\ crashes' \in Nat /\ crashes' = crashes /\ snapshot' = snapshot
       /\ UNCHANGED <<author, mode, block, seeds, blockSeeds, contracts>>
  BY <1>2 DEF SimInv, Typed, world, registry
<1>18. \A o \in DOMAIN objects :
         objects'[o].serial =
              IF /\ inflight # 0 /\ tasks[inflight].leg = "run" /\ tasks[inflight].obj = o
                 /\ tasks'[inflight].outcome = "ok"
              THEN Apply(tasks[inflight].op, inflight, objects[o].serial) ELSE objects[o].serial
  BY <1>2, <1>3, <1>5, <1>10, <1>12, <1>14
<1>19. ASSUME NEW v \in DOMAIN tasks
       PROVE  /\ v \notin {id} => tasks'[v] = tasks[v]
              /\ v \in {id} =>
                   /\ Same(tasks'[v], tasks[v]) /\ Unread(tasks'[v], tasks[v])
                   /\ tasks'[v].at = "settled"
                   /\ tasks'[v].outcome = "rejected" \/ v = inflight
                   /\ crashes' = 0 /\ tasks[v].leg = "manifest" /\ tasks'[v].outcome # "rejected"
                        => (tasks'[v].outcome = "ok" <=> tasks[v].source.reads)
  BY <1>3, <1>5, <1>8, <1>10, <1>12
<1>20. Concluded({id})
  BY <1>3, <1>4, <1>11, <1>12, <1>14, <1>15, <1>16, <1>17, <1>18, <1>19 DEF Concluded
<1> QED
  BY <1>20, ConcludedInv

\* What the executor holds.
LEMMA EntriesElems ==
  ASSUME SimInv
  PROVE  /\ InWorker \in Seq(Nat) /\ Distinct(InWorker)
         /\ Elems(InWorker) = IF inflight = 0 THEN {} ELSE {inflight}
         /\ Entries \in Seq(Nat) /\ Distinct(Entries)
         /\ Elems(Entries) = Elems(InWorker) \cup Elems(queue)
         /\ inflight \notin Elems(queue)
<1>1. inflight \in Nat /\ queue \in Seq(Nat) /\ Distinct(queue)
  BY DEF SimInv, Typed, Placed
<1>2. inflight \notin Elems(queue)
  <2> SUFFICES ASSUME inflight \in Elems(queue) PROVE FALSE
    OBVIOUS
  <2>1. inflight \in DOMAIN tasks /\ tasks[inflight].at = "waiting"
    BY DEF SimInv, Placed
  <2>2. inflight # 0
    BY <2>1, LenProperties DEF SimInv, Typed
  <2> QED
    BY <2>1, <2>2 DEF SimInv, Placed
<1>3. /\ InWorker \in Seq(Nat) /\ Distinct(InWorker)
      /\ Elems(InWorker) = IF inflight = 0 THEN {} ELSE {inflight}
  <2>1. CASE inflight = 0
    <3>1. InWorker = <<>>
      BY <2>1 DEF InWorker
    <3> QED
      BY <2>1, <3>1 DEF Distinct, Elems
  <2>2. CASE inflight # 0
    <3>1. InWorker = <<inflight>>
      BY <2>2 DEF InWorker
    <3> QED
      BY <1>1, <2>2, <3>1 DEF Distinct, Elems
  <2> QED
    BY <2>1, <2>2
<1>4. Elems(InWorker) \cap Elems(queue) = {}
  BY <1>2, <1>3
<1>5. Entries = InWorker \o queue
  BY DEF Entries
<1>6. /\ Entries \in Seq(Nat) /\ Elems(Entries) = Elems(InWorker) \cup Elems(queue)
      /\ Distinct(InWorker) /\ Distinct(queue) /\ Elems(InWorker) \cap Elems(queue) = {} => Distinct(Entries)
  BY <1>1, <1>3, <1>5, ConcatElems
<1> QED
  BY <1>1, <1>2, <1>3, <1>4, <1>6

\* The entries that a lost worker or a shutdown ends.
LEMMA DroppedInv ==
  ASSUME SimInv, NEW entries, entries = InWorker \/ entries = Entries,
         NEW outcome \in {"failed", "rejected"}, Dropped(entries, outcome),
         objects' = objects, crashes' \in Nat, crashes' = 0 => crashes = 0 /\ outcome = "rejected",
         snapshot' = Unset, UNCHANGED <<author, mode, block, seeds, blockSeeds, contracts>>
  PROVE  SimInv'
<1>1. PICK gone : gone = Elems(entries)
  OBVIOUS
<1>2. /\ entries \in Seq(Nat) /\ Distinct(entries) /\ inflight \notin Elems(queue)
      /\ (inflight # 0 => inflight \in gone)
      /\ \A v \in gone : (v = inflight /\ inflight # 0) \/ v \in Elems(queue)
      /\ entries = Entries => Elems(queue) \subseteq gone
  BY <1>1, EntriesElems
<1>3. \A v \in gone : v \in DOMAIN tasks /\ tasks[v].at \in {"waiting", "inflight"}
  BY <1>2 DEF SimInv, Placed
<1>4. /\ tasks \in Seq(TaskRec) /\ DOMAIN tasks = 1 .. Len(tasks) /\ Len(tasks) \in Nat
      /\ settled \in Seq(Nat) /\ queue \in Seq(Nat) /\ objects \in Seq(ObjectRec)
      /\ \A v \in DOMAIN tasks : tasks[v] \in TaskRec
  BY ElementOfSeq, LenProperties DEF SimInv, Typed
<1>5. tasks' = [v \in DOMAIN tasks |->
                  IF v \in gone THEN Ends(tasks[v], IF v = inflight THEN outcome ELSE "rejected")
                  ELSE tasks[v]]
  BY <1>1 DEF Dropped, Elems
<1>6. ASSUME NEW v \in DOMAIN tasks, NEW new, new = tasks'[v]
      PROVE  /\ new \in TaskRec
             /\ v \notin gone => new = tasks[v]
             /\ v \in gone => /\ Same(new, tasks[v]) /\ Unread(new, tasks[v])
                              /\ new.at = "settled"
                              /\ new.outcome = IF v = inflight THEN outcome ELSE "rejected"
  <2>1. CASE v \notin gone
    BY <1>4, <1>5, <1>6, <2>1
  <2>2. CASE v \in gone
    <3>1. PICK end : end = IF v = inflight THEN outcome ELSE "rejected"
      OBVIOUS
    <3>2. end \in {"ok", "failed", "rejected"} /\ new = Ends(tasks[v], end)
      BY <1>5, <1>6, <2>2, <3>1
    <3> QED
      BY <1>4, <2>2, <3>1, <3>2, EndsShape
  <2> QED
    BY <2>1, <2>2
<1>7. tasks' \in Seq(TaskRec) /\ DOMAIN tasks' = DOMAIN tasks
  <2>1. DOMAIN tasks' = DOMAIN tasks
    BY <1>5
  <2>2. tasks' = [v \in 1 .. Len(tasks) |-> tasks'[v]]
    BY <1>4, <1>5
  <2>3. \A v \in 1 .. Len(tasks) : tasks'[v] \in TaskRec
    BY <1>4, <1>6
  <2>4. tasks' \in [1 .. Len(tasks) -> TaskRec]
    BY <2>2, <2>3
  <2>5. PICK n \in Nat : n = Len(tasks)
    BY <1>4
  <2>6. \E m \in Nat : tasks' \in [1 .. m -> TaskRec]
    BY <2>4, <2>5
  <2>7. tasks' \in Seq(TaskRec)
    BY <2>6, SeqDef, Zenon
  <2> QED
    BY <2>1, <2>7
<1>8. /\ settled' \in Seq(Nat) /\ Distinct(settled') /\ Elems(settled') = Elems(settled) \cup gone
  <2>1. settled' = settled \o entries
    BY DEF Dropped
  <2>2. Distinct(settled) /\ Elems(settled) \cap Elems(entries) = {}
    BY <1>1, <1>3 DEF SimInv, Placed
  <2> QED
    BY <1>1, <1>2, <1>4, <2>1, <2>2, ConcatElems
<1>9. /\ queue' \in Seq(Nat) /\ Distinct(queue') /\ Elems(queue') \subseteq Elems(queue) \ gone
      /\ mode = "in-process" => queue' = <<>>
  <2>1. CASE entries = Entries
    <3>1. queue' = <<>>
      BY <2>1 DEF Dropped
    <3> QED
      BY <3>1 DEF Distinct, Elems
  <2>2. CASE entries # Entries
    <3>1. queue' = queue /\ Distinct(queue) /\ (mode = "in-process" => queue = <<>>)
      BY <2>2 DEF Dropped, SimInv, Placed
    <3>2. Elems(queue) \cap gone = {}
      BY <1>1, <1>2, <2>2, EntriesElems
    <3> QED
      BY <1>4, <3>1, <3>2
  <2> QED
    BY <2>1, <2>2
<1>10. inflight' = 0
  BY DEF Dropped
<1>11. ~(/\ inflight # 0 /\ tasks[inflight].leg = "run"
         /\ tasks'[inflight].outcome = "ok")
  <2> SUFFICES ASSUME inflight # 0 PROVE tasks'[inflight].outcome # "ok"
    OBVIOUS
  <2> QED
    BY <1>2, <1>3, <1>6
<1>12. ASSUME NEW v \in DOMAIN tasks
       PROVE  /\ v \notin gone => tasks'[v] = tasks[v]
              /\ v \in gone =>
                   /\ Same(tasks'[v], tasks[v]) /\ Unread(tasks'[v], tasks[v])
                   /\ tasks'[v].at = "settled"
                   /\ tasks'[v].outcome = "rejected" \/ v = inflight
                   /\ crashes' = 0 /\ tasks[v].leg = "manifest" /\ tasks'[v].outcome # "rejected"
                        => (tasks'[v].outcome = "ok" <=> tasks[v].source.reads)
  BY <1>6
<1>13. gone \subseteq DOMAIN tasks /\ \A v \in gone : v = inflight \/ v \in Elems(queue)
  BY <1>2, <1>3
<1>14. Concluded(gone)
  BY <1>2, <1>4, <1>7, <1>8, <1>9, <1>10, <1>11, <1>12, <1>13 DEF Concluded
<1> QED
  BY <1>14, ConcludedInv

\* A worker that dies.
LEMMA WorkerLostInv ==
  ASSUME SimInv, WorkerLost
  PROVE  SimInv'
<1>1. PICK outcome \in {"failed", "rejected"} :
        Dropped(InWorker, outcome) \/ Dropped(Entries, outcome)
  BY DEF WorkerLost
<1>2. crashes \in Nat /\ crashes' = crashes + 1
  BY DEF WorkerLost, SimInv, Typed
<1>3. /\ objects' = objects /\ snapshot' = Unset
      /\ UNCHANGED <<author, mode, block, seeds, blockSeeds, contracts>>
  BY DEF WorkerLost, world, registry
<1>4. crashes' \in Nat /\ crashes' # 0
  BY <1>2
<1>5. PICK entries : (entries = InWorker \/ entries = Entries) /\ Dropped(entries, outcome)
  BY <1>1
<1> QED
  BY <1>3, <1>4, <1>5, DroppedInv

\* close()
LEMMA CloseInv ==
  ASSUME SimInv, close
  PROVE  SimInv'
<1>1. PICK entries : entries = Entries
  OBVIOUS
<1>2. Dropped(entries, "rejected")
  BY <1>1 DEF close
<1>3. /\ objects' = objects /\ snapshot' = Unset /\ crashes' = crashes /\ crashes \in Nat
      /\ UNCHANGED <<author, mode, block, seeds, blockSeeds, contracts>>
  BY DEF close, registry, SimInv, Typed
<1> QED
  BY <1>1, <1>2, <1>3, DroppedInv
-------------------------------------------------------------------------------
(***************************************************************************)
(* The world around, and the continuation of a run.                        *)
(***************************************************************************)
\* Heights and seeds.
LEMMA QuietInv ==
  ASSUME SimInv,
         UNCHANGED <<author, mode, objects, tasks, queue, inflight, settled, crashes, contracts>>,
         block' \in Nat, seeds' \in Nat, blockSeeds' \in Nat, snapshot' \in Nat \cup {Unset},
         seeds <= seeds', blockSeeds' <= seeds',
         snapshot' # Unset => blockSeeds' <= snapshot' /\ snapshot' <= seeds'
  PROVE  SimInv'
<1>1. Typed'
  BY DEF SimInv, Typed
<1>2. Placed'
  BY DEF SimInv, Placed
<1>3. OwnEffects'
  BY DEF SimInv, OwnEffects
<1>4. InTurn'
  BY DEF SimInv, InTurn
<1>5. OneByOne'
  BY DEF SimInv, OneByOne
<1>6. Verdicts'
  BY DEF SimInv, Verdicts
<1>7. \A t \in DOMAIN tasks : tasks[t].called <= seeds'
  <2> TAKE t \in DOMAIN tasks
  <2>1. tasks[t] \in TaskRec /\ tasks[t].called <= seeds /\ seeds \in Nat
    BY ElementOfSeq, LenProperties DEF SimInv, Typed, Seeding
  <2> QED
    BY <2>1 DEF TaskRec
<1>8. Seeding'
  BY <1>7 DEF SimInv, Seeding, SeedsVisible
<1> QED
  BY <1>1, <1>2, <1>3, <1>4, <1>5, <1>6, <1>8 DEF SimInv

\* The simulator's block and seeds, and the snapshot of a block.
LEMMA WorldInv ==
  ASSUME SimInv,
         \/ \E height \in 0 .. author.maxBlock : setBlock(height)
         \/ advanceBlock \/ setCrossChain \/ SendSnapshot
         \/ UNCHANGED vars
  PROVE  SimInv'
<1>1. /\ block \in Nat /\ seeds \in Nat /\ blockSeeds \in Nat /\ snapshot \in Nat \cup {Unset}
      /\ blockSeeds <= seeds /\ (snapshot # Unset => blockSeeds <= snapshot /\ snapshot <= seeds)
  BY DEF SimInv, Typed, Seeding
<1>2. author.maxBlock \in Nat
  BY SimulatorAssumption DEF SimInv, Typed
<1>3. ASSUME NEW height \in 0 .. author.maxBlock, setBlock(height) PROVE SimInv'
  <2>1. UNCHANGED <<author, mode, objects, tasks, queue, inflight, settled, crashes, contracts>>
        /\ block' = height /\ UNCHANGED <<seeds, blockSeeds, snapshot>>
    BY <1>3 DEF setBlock, executor, registry
  <2>2. height \in Nat
    BY <1>2
  <2> QED
    BY <1>1, <2>1, <2>2, QuietInv
<1>4. CASE advanceBlock
  <2>1. UNCHANGED <<author, mode, objects, tasks, queue, inflight, settled, crashes, contracts>>
        /\ block' = block + 1 /\ seeds' = seeds /\ blockSeeds' = seeds /\ snapshot' = Unset
    BY <1>4 DEF advanceBlock, registry
  <2> QED
    BY <1>1, <2>1, QuietInv
<1>5. CASE setCrossChain
  <2>1. UNCHANGED <<author, mode, objects, tasks, queue, inflight, settled, crashes, contracts>>
        /\ block' = block /\ seeds' = seeds + 1 /\ UNCHANGED <<blockSeeds, snapshot>>
    BY <1>5 DEF setCrossChain, executor, registry
  <2>2. /\ seeds + 1 \in Nat /\ seeds <= seeds + 1 /\ blockSeeds <= seeds + 1
        /\ (snapshot # Unset => blockSeeds <= snapshot /\ snapshot <= seeds + 1)
    BY <1>1
  <2> QED
    BY <1>1, <2>1, <2>2, QuietInv
<1>6. CASE SendSnapshot
  <2>1. UNCHANGED <<author, mode, objects, tasks, queue, inflight, settled, crashes, contracts>>
        /\ UNCHANGED <<block, seeds, blockSeeds>> /\ snapshot' = seeds
    BY <1>6 DEF SendSnapshot, world, registry
  <2> QED
    BY <1>1, <2>1, QuietInv
<1>7. CASE UNCHANGED vars
  <2>1. UNCHANGED <<author, mode, objects, tasks, queue, inflight, settled, crashes, contracts>>
        /\ UNCHANGED <<block, seeds, blockSeeds, snapshot>>
    BY <1>7 DEF vars, world, executor, registry
  <2> QED
    BY <1>1, <2>1, QuietInv
<1> QED
  BY <1>3, <1>4, <1>5, <1>6, <1>7
\* A task that is done is the record it was, with its last verdict.
LEMMA DoneType ==
  ASSUME NEW t \in TaskRec,
         NEW verdict \in {"none", "lint", "host", "valid", "policy", "meta", "constructor"},
         NEW new, new = [t EXCEPT !.at = "done", !.verdict = verdict]
  PROVE  new \in TaskRec
  BY DEF TaskRec

\* What the continuation of a run is given.
LEMMA AfterRunShape ==
  ASSUME SimInv, NEW id \in DOMAIN tasks, AfterRun(id), NEW t, t = tasks[id]
  PROVE  \E new :
           /\ new \in TaskRec /\ t \in TaskRec /\ t.leg = "run" /\ t.at = "settled"
           /\ t.obj \in DOMAIN objects /\ id \in Nat
           /\ new.kind = t.kind /\ new.leg = t.leg /\ new.obj = t.obj /\ new.op = t.op
           /\ new.source = t.source /\ new.params = t.params /\ new.init = t.init
           /\ new.called = t.called /\ new.blocks = t.blocks /\ new.outcome = t.outcome
           /\ new.read = t.read /\ new.seen = t.seen /\ new.floor = t.floor
           /\ new.at = "done" /\ new.verdict = constructorGateVerdict(t.verdict, t.outcome)
           /\ tasks' \in Seq(TaskRec) /\ DOMAIN tasks' = DOMAIN tasks /\ tasks'[id] = new
           /\ \A v \in DOMAIN tasks : v # id => tasks'[v] = tasks[v]
           /\ settled' \in Seq(Nat) /\ Distinct(settled') /\ Elems(settled') = Elems(settled) \ {id}
<1>1. t.leg = "run" /\ \E k \in DOMAIN settled : settled[k] = id
  BY DEF AfterRun, Due
<1>2. /\ tasks \in Seq(TaskRec) /\ DOMAIN tasks = 1 .. Len(tasks) /\ t \in TaskRec
      /\ settled \in Seq(Nat) /\ Distinct(settled)
  BY ElementOfSeq, LenProperties DEF SimInv, Typed, Placed
<1>3. id \in Elems(settled) /\ t.at = "settled" /\ t.obj \in DOMAIN objects
  BY <1>1 DEF Elems, SimInv, Placed
<1>4. PICK verdict : verdict = constructorGateVerdict(t.verdict, t.outcome)
  OBVIOUS
<1>5. verdict \in {"none", "lint", "host", "valid", "policy", "meta", "constructor"}
  BY <1>2, <1>4 DEF constructorGateVerdict, TaskRec
<1>6. PICK new : new = [t EXCEPT !.at = "done", !.verdict = verdict]
  OBVIOUS
<1>7. /\ new \in TaskRec
      /\ new.kind = t.kind /\ new.leg = t.leg /\ new.obj = t.obj /\ new.op = t.op
      /\ new.source = t.source /\ new.params = t.params /\ new.init = t.init
      /\ new.called = t.called /\ new.blocks = t.blocks /\ new.outcome = t.outcome
      /\ new.read = t.read /\ new.seen = t.seen /\ new.floor = t.floor
      /\ new.at = "done" /\ new.verdict = verdict
  <2>1. new \in TaskRec
    BY <1>2, <1>5, <1>6, DoneType
  <2>2. new.at = "done" /\ new.verdict = verdict
    BY <1>2, <1>6 DEF TaskRec
  <2>3. /\ new.kind = t.kind /\ new.leg = t.leg /\ new.obj = t.obj /\ new.op = t.op
        /\ new.source = t.source /\ new.params = t.params /\ new.init = t.init
    BY <1>2, <1>6 DEF TaskRec
  <2>4. /\ new.called = t.called /\ new.blocks = t.blocks /\ new.outcome = t.outcome
        /\ new.read = t.read /\ new.seen = t.seen /\ new.floor = t.floor
    BY <1>2, <1>6 DEF TaskRec
  <2> QED
    BY <2>1, <2>2, <2>3, <2>4
<1>8. tasks' = [tasks EXCEPT ![id] = new]
  <2>1. tasks' = [tasks EXCEPT ![id].at = "done",
                               ![id].verdict = constructorGateVerdict(@, t.outcome)]
    BY DEF AfterRun
  <2>2. tasks' = [tasks EXCEPT ![id] = [t EXCEPT !.at = "done",
                                                 !.verdict = constructorGateVerdict(t.verdict, t.outcome)]]
    BY <1>2, <2>1 DEF TaskRec
  <2> QED
    BY <1>4, <1>6, <2>2
<1>9. /\ tasks' \in Seq(TaskRec) /\ DOMAIN tasks' = DOMAIN tasks /\ tasks'[id] = new
      /\ \A v \in DOMAIN tasks : v # id => tasks'[v] = tasks[v]
  BY <1>2, <1>7, <1>8
<1>10. settled' \in Seq(Nat) /\ Distinct(settled') /\ Elems(settled') = Elems(settled) \ {id}
  <2>1. PICK k : k = CHOOSE j \in DOMAIN settled : settled[j] = id
    OBVIOUS
  <2>2. k \in DOMAIN settled /\ settled[k] = id
    BY <1>1, <2>1
  <2>3. settled' = SubSeq(settled, 1, k - 1) \o SubSeq(settled, k + 1, Len(settled))
    BY <2>1 DEF AfterRun, Without
  <2>4. PICK due : due = SubSeq(settled, 1, k - 1) \o SubSeq(settled, k + 1, Len(settled))
    OBVIOUS
  <2>5. due \in Seq(Nat) /\ Distinct(due) /\ Elems(due) = Elems(settled) \ {settled[k]}
    BY <1>2, <2>2, <2>4, CutElems
  <2>6. settled' = due
    BY <2>3, <2>4
  <2> QED
    BY <2>2, <2>5, <2>6
<1>11. id \in Nat
  BY <1>2
<1> QED
  BY <1>1, <1>2, <1>3, <1>4, <1>7, <1>9, <1>10, <1>11

\* The verdict of the constructor's leg is the chain's.
LEMMA ConstructorVerdict ==
  ASSUME NEW source, NEW params, NEW b, NEW verdict, NEW outcome,
         verdict = ChainVerdict(source, params, b, "none"),
         verdict = "valid" => params \/ (b >= StrictFrom /\ source.reads /\ source.init)
  PROVE  constructorGateVerdict(verdict, outcome) = ChainVerdict(source, params, b, outcome)
  BY DEF constructorGateVerdict, ChainVerdict

\* The continuation of a run, which commits it.
LEMMA AfterRunInv ==
  ASSUME SimInv, NEW id \in DOMAIN tasks, AfterRun(id)
  PROVE  SimInv'
<1>1. PICK t : t = tasks[id]
  OBVIOUS
<1>2. PICK new :
           /\ new \in TaskRec /\ t \in TaskRec /\ t.leg = "run" /\ t.at = "settled"
           /\ t.obj \in DOMAIN objects /\ id \in Nat
           /\ new.kind = t.kind /\ new.leg = t.leg /\ new.obj = t.obj /\ new.op = t.op
           /\ new.source = t.source /\ new.params = t.params /\ new.init = t.init
           /\ new.called = t.called /\ new.blocks = t.blocks /\ new.outcome = t.outcome
           /\ new.read = t.read /\ new.seen = t.seen /\ new.floor = t.floor
           /\ new.at = "done" /\ new.verdict = constructorGateVerdict(t.verdict, t.outcome)
           /\ tasks' \in Seq(TaskRec) /\ DOMAIN tasks' = DOMAIN tasks /\ tasks'[id] = new
           /\ \A v \in DOMAIN tasks : v # id => tasks'[v] = tasks[v]
           /\ settled' \in Seq(Nat) /\ Distinct(settled') /\ Elems(settled') = Elems(settled) \ {id}
  BY <1>1, AfterRunShape
<1>3. /\ author' = author /\ mode' = mode /\ block' = block /\ seeds' = seeds
      /\ blockSeeds' = blockSeeds /\ snapshot' = snapshot /\ crashes' = crashes
      /\ contracts' = contracts /\ queue' = queue /\ inflight' = inflight
  BY DEF AfterRun, world, registry
<1>4. PICK effect : effect = Apply(t.op, id, t.read)
  OBVIOUS
<1>5. effect \in SUBSET Nat /\ effect \subseteq t.read \cup {id}
  <2>1. t.read \in SUBSET Nat
    BY <1>2 DEF TaskRec
  <2> QED
    BY <1>2, <1>4, <2>1, ApplyType DEF Apply
<1>6. objects' = IF t.outcome = "ok" THEN [objects EXCEPT ![t.obj].state = effect] ELSE objects
  BY <1>1, <1>4 DEF AfterRun, Commit
<1>7. objects \in Seq(ObjectRec) /\ \A o \in DOMAIN objects : objects[o] \in ObjectRec
  BY ElementOfSeq, LenProperties DEF SimInv, Typed
<1>8. /\ objects' \in Seq(ObjectRec) /\ DOMAIN objects' = DOMAIN objects /\ Len(objects') = Len(objects)
      /\ \A o \in DOMAIN objects :
           /\ objects'[o].serial = objects[o].serial /\ objects'[o].overlapped = objects[o].overlapped
           /\ objects'[o].state = IF t.outcome = "ok" /\ o = t.obj THEN effect ELSE objects[o].state
  <2>1. CASE t.outcome # "ok"
    BY <1>6, <1>7, <2>1
  <2>2. CASE t.outcome = "ok"
    <3>1. PICK ob : ob = [objects[t.obj] EXCEPT !.state = effect]
      OBVIOUS
    <3>2. objects' = [objects EXCEPT ![t.obj] = ob]
      BY <1>6, <2>2, <3>1
    <3>3. /\ ob \in ObjectRec /\ ob.state = effect /\ ob.serial = objects[t.obj].serial
          /\ ob.overlapped = objects[t.obj].overlapped
      BY <1>2, <1>5, <1>7, <3>1 DEF ObjectRec
    <3>4. objects' \in Seq(ObjectRec) /\ DOMAIN objects' = DOMAIN objects /\ Len(objects') = Len(objects)
      BY <1>2, <1>7, <3>2, <3>3
    <3>5. objects'[t.obj] = ob /\ \A o \in DOMAIN objects : o # t.obj => objects'[o] = objects[o]
      BY <1>2, <3>2
    <3> QED
      BY <2>2, <3>3, <3>4, <3>5
  <2> QED
    BY <2>1, <2>2
<1>9. Typed'
  BY <1>2, <1>3, <1>8 DEF SimInv, Typed
<1>10. Placed'
  <2>1. \A u \in Elems(queue') : u \in DOMAIN tasks' /\ tasks'[u].at = "waiting"
    BY <1>1, <1>2, <1>3 DEF SimInv, Placed
  <2>2. Elems(settled') \subseteq DOMAIN tasks'
    BY <1>2 DEF SimInv, Placed
  <2>3. ASSUME NEW u \in DOMAIN tasks'
        PROVE  /\ tasks'[u].at = "inflight" => u = inflight'
               /\ tasks'[u].at = "settled" <=> u \in Elems(settled')
               /\ tasks'[u].at \in {"waiting", "inflight"} => tasks'[u].outcome = "none"
               /\ tasks'[u].leg = "run" => tasks'[u].obj \in DOMAIN objects'
               /\ tasks'[u].leg = "manifest" => tasks'[u].kind = "deploy" /\ tasks'[u].at # "done"
    <3>1. CASE u = id
      BY <1>2, <1>8, <3>1
    <3>2. CASE u # id
      <4>1. tasks'[u] = tasks[u] /\ u \in DOMAIN tasks
        BY <1>2, <3>2
      <4>2. u \in Elems(settled') <=> u \in Elems(settled)
        BY <1>2, <3>2
      <4> QED
        BY <1>3, <1>8, <4>1, <4>2 DEF SimInv, Placed
    <3> QED
      BY <3>1, <3>2
  <2>4. /\ Distinct(queue') /\ Distinct(settled')
        /\ inflight' # 0 => inflight' \in DOMAIN tasks' /\ tasks'[inflight'].at = "inflight"
        /\ mode' = "in-process" => queue' = <<>> /\ inflight' = 0
    BY <1>1, <1>2, <1>3 DEF SimInv, Placed
  <2> QED
    BY <2>1, <2>2, <2>3, <2>4 DEF Placed
<1>11. \A o, u : Good(tasks, o, u) => Good(tasks', o, u)
  BY <1>1, <1>2 DEF Good
<1>12. \A u \in t.read : Good(tasks, t.obj, u)
  BY <1>1 DEF SimInv, OwnEffects
<1>13. OwnEffects'
  <2>1. ASSUME NEW o \in DOMAIN objects', NEW u \in objects'[o].state \cup objects'[o].serial
        PROVE  Good(tasks', o, u)
    <3>1. \A w \in objects[o].state \cup objects[o].serial : Good(tasks', o, w)
      BY <1>8, <1>11 DEF SimInv, OwnEffects
    <3>2. CASE t.outcome = "ok" /\ o = t.obj
      <4>1. u \in t.read \/ u = id \/ u \in objects[o].serial
        <5>1. o \in DOMAIN objects /\ objects'[o].state = effect /\ objects'[o].serial = objects[o].serial
          BY <1>8, <3>2
        <5> QED
          BY <1>5, <2>1, <5>1
      <4>2. Good(tasks, o, id)
        BY <1>1, <1>2, <3>2 DEF Good
      <4> QED
        BY <1>11, <1>12, <3>1, <3>2, <4>1, <4>2
    <3>3. CASE ~(t.outcome = "ok" /\ o = t.obj)
      BY <1>8, <2>1, <3>1, <3>3
    <3> QED
      BY <3>2, <3>3
  <2>2. ASSUME NEW v \in DOMAIN tasks', NEW u \in tasks'[v].read
        PROVE  tasks'[v].leg = "run" /\ Good(tasks', tasks'[v].obj, u)
    <3>1. CASE v = id
      BY <1>2, <1>11, <1>12, <2>2, <3>1
    <3>2. CASE v # id
      BY <1>2, <1>11, <2>2, <3>2 DEF SimInv, OwnEffects
    <3> QED
      BY <3>1, <3>2
  <2> QED
    BY <2>1, <2>2 DEF OwnEffects
<1>14. InTurn'
  <2> SUFFICES ASSUME NEW o \in DOMAIN objects', ~objects'[o].overlapped
               PROVE  Turn(tasks', objects'[o], o)
    BY DEF InTurn
  <2>1. /\ o \in DOMAIN objects /\ objects'[o].serial = objects[o].serial
        /\ objects'[o].state = IF t.outcome = "ok" /\ o = t.obj THEN effect ELSE objects[o].state
        /\ Turn(tasks, objects[o], o)
    BY <1>8 DEF SimInv, InTurn
  <2>2. \A v \in DOMAIN tasks : v # id => (Live(tasks', o, v) <=> Live(tasks, o, v))
    BY <1>2 DEF Live
  <2>3. ~Live(tasks', o, id)
    BY <1>2 DEF Live
  <2>4. \A v \in DOMAIN tasks' : Live(tasks', o, v) => v \in DOMAIN tasks /\ Live(tasks, o, v) /\ tasks'[v] = tasks[v]
    BY <1>2, <2>2, <2>3
  <2>5. CASE t.outcome = "ok" /\ o = t.obj
    <3>1. Live(tasks, o, id)
      BY <1>1, <1>2, <2>5 DEF Live
    <3>2. t.read = objects[o].state /\ objects[o].serial = effect
      BY <1>1, <1>2, <1>4, <2>1, <3>1 DEF Turn
    <3>3. \A v \in DOMAIN tasks' : ~Live(tasks', o, v)
      BY <2>1, <2>3, <2>4, <3>1 DEF Turn
    <3> QED
      BY <2>1, <2>5, <3>2, <3>3 DEF Turn
  <2>6. CASE ~(t.outcome = "ok" /\ o = t.obj)
    <3>1. ~Live(tasks, o, id)
      BY <1>1, <1>2, <2>6 DEF Live
    <3>2. (\A v \in DOMAIN tasks' : ~Live(tasks', o, v)) => \A v \in DOMAIN tasks : ~Live(tasks, o, v)
      BY <1>2, <2>2, <3>1
    <3> QED
      BY <2>1, <2>4, <2>6, <3>2 DEF Turn
  <2> QED
    BY <2>5, <2>6
<1>15. OneByOne'
  <2> SUFFICES ASSUME author.awaits
               PROVE  /\ \A u, v \in DOMAIN tasks' : tasks'[u].at # "done" /\ tasks'[v].at # "done" => u = v
                      /\ \A o \in DOMAIN objects' : ~objects'[o].overlapped
    BY <1>3 DEF OneByOne
  <2>1. ASSUME NEW u \in DOMAIN tasks', tasks'[u].at # "done"
        PROVE  u \in DOMAIN tasks /\ tasks[u].at # "done"
    BY <1>2, <2>1
  <2>2. \A o \in DOMAIN objects' : ~objects'[o].overlapped
    BY <1>8 DEF SimInv, OneByOne
  <2> QED
    BY <2>1, <2>2 DEF SimInv, OneByOne
<1>16. Verdicts'
  <2> SUFFICES ASSUME NEW u \in DOMAIN tasks', tasks'[u].kind = "deploy"
               PROVE  JudgedSoFar(tasks'[u], author.sources, crashes)
    BY <1>3 DEF Verdicts
  <2>1. CASE u # id
    BY <1>2, <2>1 DEF SimInv, Verdicts
  <2>2. CASE u = id
    <3>1. JudgedSoFar(t, author.sources, crashes)
      BY <1>1, <1>2, <2>2 DEF SimInv, Verdicts
    <3>2. tasks'[u] = new /\ new.leg = "run" /\ new.at = "done"
      BY <1>2, <2>2
    <3>3. new.source \in author.sources
      BY <1>2, <3>1 DEF JudgedSoFar
    <3>4. ASSUME new.verdict # "host", crashes = 0, NEW b \in new.blocks, new.blocks = {b}
          PROVE  new.verdict = ChainVerdict(new.source, new.params, b, new.outcome)
      <4>1. t.verdict # "host"
        BY <1>2, <3>4 DEF constructorGateVerdict
      <4>2. /\ t.verdict = ChainVerdict(t.source, t.params, b, "none")
            /\ t.verdict = "valid" => Constructs(t, b)
        BY <1>2, <3>1, <3>4, <4>1 DEF JudgedSoFar
      <4>3. t.verdict = "valid" => t.params \/ (b >= StrictFrom /\ t.source.reads /\ t.source.init)
        BY <4>2 DEF Constructs
      <4> QED
        BY <1>2, <4>2, <4>3, ConstructorVerdict
    <3> QED
      BY <3>2, <3>3, <3>4 DEF JudgedSoFar
  <2> QED
    BY <2>1, <2>2
<1>17. Seeding'
  <2>1. ASSUME NEW u \in DOMAIN tasks'
        PROVE  /\ tasks'[u].called <= seeds
               /\ tasks'[u].leg = "manifest" \/ tasks'[u].at = "waiting" =>
                    tasks'[u].seen = tasks'[u].called /\ tasks'[u].floor = 0
               /\ tasks'[u].leg = "run" /\ tasks'[u].at # "waiting" /\ tasks'[u].outcome # "rejected" =>
                    tasks'[u].seen >= IF mode = "in-process" THEN tasks'[u].called ELSE tasks'[u].floor
    <3>1. CASE u # id
      BY <1>2, <3>1 DEF SimInv, Seeding, SeedsVisible
    <3>2. CASE u = id
      <4>1. /\ t.called <= seeds
            /\ t.outcome # "rejected" => t.seen >= IF mode = "in-process" THEN t.called ELSE t.floor
        BY <1>1, <1>2 DEF SimInv, Seeding, SeedsVisible
      <4> QED
        BY <1>2, <3>2, <4>1
    <3> QED
      BY <3>1, <3>2
  <2> QED
    BY <1>3, <2>1 DEF SimInv, Seeding, SeedsVisible
<1> QED
  BY <1>9, <1>10, <1>13, <1>14, <1>15, <1>16, <1>17 DEF SimInv
-------------------------------------------------------------------------------
(***************************************************************************)
(* The theorems.                                                           *)
(***************************************************************************)
\* Nothing has been done in a new simulator.
LEMMA SimInit == Init => SimInv
<1> SUFFICES ASSUME Init PROVE SimInv
  OBVIOUS
<1>1. /\ author \in Authors /\ mode \in Modes
      /\ contracts = [i \in Indexes |-> 0] /\ block = 0 /\ seeds = 0 /\ blockSeeds = 0 /\ crashes = 0
      /\ objects = <<>> /\ tasks = <<>> /\ queue = <<>> /\ inflight = 0 /\ settled = <<>>
      /\ snapshot = Unset
  BY DEF Init
<1>2. DOMAIN objects = {} /\ DOMAIN tasks = {} /\ Elems(queue) = {} /\ Elems(settled) = {} /\ Len(objects) = 0
  BY <1>1 DEF Elems
<1>3. Typed
  <2>1. contracts \in [Indexes -> 0 .. Len(objects)]
    BY <1>1, <1>2
  <2> QED
    BY <1>1, <2>1 DEF Typed
<1>4. Placed
  BY <1>1, <1>2 DEF Placed, Distinct
<1>5. OwnEffects /\ InTurn /\ OneByOne /\ Verdicts
  BY <1>2 DEF OwnEffects, InTurn, OneByOne, Verdicts
<1>6. Seeding
  BY <1>1, <1>2 DEF Seeding, SeedsVisible
<1> QED
  BY <1>3, <1>4, <1>5, <1>6 DEF SimInv

\* Every step keeps the invariant.
LEMMA SimStep == SimInv /\ [Next]_vars => SimInv'
<1> SUFFICES ASSUME SimInv, [Next]_vars PROVE SimInv'
  OBVIOUS
<1>1. CASE \E source \in author.sources, want \in Indexes \cup {NoIndex}, params \in BOOLEAN :
              Deploy(source, want, params)
  BY <1>1, DeployInv
<1>2. CASE \E index \in Indexes, op \in Ops : Call(index, op)
  BY <1>2, CallInv
<1>3. CASE Dispatch
  BY <1>3, DispatchInv
<1>4. CASE Reply
  BY <1>4, ReplyInv
<1>5. CASE WorkerLost
  BY <1>5, WorkerLostInv
<1>6. CASE \E id \in DOMAIN tasks : AfterManifest(id) \/ AfterRun(id)
  BY <1>6, AfterManifestInv, AfterRunInv
<1>7. CASE close
  BY <1>7, CloseInv
<1>8. CASE \/ \E height \in 0 .. author.maxBlock : setBlock(height)
           \/ advanceBlock \/ setCrossChain \/ SendSnapshot
           \/ UNCHANGED vars
  BY <1>8, WorldInv
<1> QED
  BY <1>1, <1>2, <1>3, <1>4, <1>5, <1>6, <1>7, <1>8 DEF Next

\* In every state the simulator reaches.
LEMMA SimInvariant == Spec => []SimInv
  BY SimInit, SimStep, PTL DEF Spec

\* "Commit committed state exactly as the indexer does" (execution.js): for any authors,
\* contracts and numbers of tasks, a contract's state is that of its successful runs one
\* after the other, unless the runs of an author who does not await overlapped; and it
\* never holds an effect of a failed run or of another contract's.
THEOREM SimulatorStatesSerial == Spec => []SerialUnlessOverlapped
<1>1. SimInv => SerialUnlessOverlapped
  <2> SUFFICES ASSUME SimInv, NEW o \in DOMAIN objects
               PROVE  /\ \A id \in objects[o].state : tasks[id].obj = o /\ tasks[id].outcome = "ok"
                      /\ \/ objects[o].overlapped /\ ~author.awaits
                         \/ Uncommitted(o)
                         \/ objects[o].state = objects[o].serial
    BY DEF SerialUnlessOverlapped
  <2>1. \A id \in objects[o].state : tasks[id].obj = o /\ tasks[id].outcome = "ok"
    BY DEF SimInv, OwnEffects, Good
  <2>2. CASE objects[o].overlapped
    BY <2>1, <2>2 DEF SimInv, OneByOne
  <2>3. CASE ~objects[o].overlapped
    <3>1. Turn(tasks, objects[o], o)
      BY <2>3 DEF SimInv, InTurn
    <3>2. CASE \A t \in DOMAIN tasks : ~Live(tasks, o, t)
      BY <2>1, <3>1, <3>2 DEF Turn
    <3>3. CASE \E t \in DOMAIN tasks : Live(tasks, o, t)
      <4>1. PICK t \in DOMAIN tasks : Live(tasks, o, t)
        BY <3>3
      <4>2. CASE tasks[t].at = "settled"
        <5>1. Uncommitted(o)
          BY <4>1, <4>2 DEF Uncommitted, Live
        <5> QED
          BY <2>1, <5>1
      <4>3. CASE tasks[t].at # "settled"
        <5>1. objects[o].serial = objects[o].state
          BY <3>1, <4>1, <4>3 DEF Turn
        <5> QED
          BY <2>1, <5>1
      <4> QED
        BY <4>2, <4>3
    <3> QED
      BY <3>2, <3>3
  <2> QED
    BY <2>2, <2>3
<1> QED
  BY <1>1, SimInvariant, PTL

\* "deployGate is the chain's deploy verdict" (execution.js): for any sources, heights and
\* activation blocks, the verdict of the simulator's three legs and of the constructor's,
\* taken at three moments, is the one the chain records, unless the block changed in
\* between or a host failed.
THEOREM SimulatorVerdict == Spec => []VerdictIsTheChains
<1>1. SimInv => VerdictIsTheChains
  <2> SUFFICES ASSUME SimInv, NEW t \in DOMAIN tasks,
                      tasks[t].kind = "deploy", tasks[t].at = "done", tasks[t].verdict # "host",
                      tasks[t].outcome # "rejected", crashes = 0,
                      NEW b \in tasks[t].blocks, tasks[t].blocks = {b}
               PROVE  tasks[t].verdict =
                        ChainVerdict(tasks[t].source, tasks[t].params, b, tasks[t].outcome)
    BY DEF VerdictIsTheChains
  <2>1. JudgedSoFar(tasks[t], author.sources, crashes)
    BY DEF SimInv, Verdicts
  <2>2. tasks[t].leg = "run"
    <3>1. tasks[t].leg # "manifest"
      BY DEF SimInv, Placed
    <3>2. tasks[t] \in TaskRec
      BY ElementOfSeq, LenProperties DEF SimInv, Typed
    <3> QED
      BY <3>1, <3>2 DEF TaskRec
  <2> QED
    BY <2>1, <2>2 DEF JudgedSoFar
<1> QED
  BY <1>1, SimInvariant, PTL

\* For any numbers of seeds, calls and lost workers, a call over a machine in this process
\* sees all that was seeded before it, and one over a worker at least what was there when
\* the block it is dispatched in was opened (the snapshot of snapshot-channel.js).
THEOREM SimulatorSeeds == Spec => []SeedsVisible
<1>1. SimInv => SeedsVisible
  BY DEF SimInv, Seeding
<1> QED
  BY <1>1, SimInvariant, PTL
-------------------------------------------------------------------------------
(***************************************************************************)
(* The rule set a simulator runs.                                          *)
(***************************************************************************)
\* A set of numbers with a bound has a largest one, which is what Max chooses.
LEMMA MaxOf ==
  ASSUME NEW S, S \subseteq Nat, S # {}, NEW m \in Nat, \A y \in S : y <= m
  PROVE  Max(S) \in S /\ \A y \in S : y <= Max(S)
<1> DEFINE T == {n \in Nat : \A y \in S : y <= n}
<1>1. T \subseteq Nat /\ m \in T
  OBVIOUS
<1>2. PICK x \in T : \A y \in T : x <= y
  BY <1>1, LeastNumber
<1>3. x \in S
  <2> SUFFICES ASSUME x \notin S PROVE FALSE
    OBVIOUS
  <2>1. PICK z \in S : TRUE
    OBVIOUS
  <2>2. x \in Nat /\ \A y \in S : y \in Nat /\ y <= x /\ y # x
    BY <1>2
  <2>3. x # 0 /\ x - 1 \in Nat
    BY <2>1, <2>2
  <2>4. x - 1 \in T
    BY <2>2, <2>3
  <2> QED
    BY <1>2, <2>2, <2>4
<1>4. \A y \in S : x >= y
  BY <1>2
<1> HIDE DEF T
<1>5. \E z \in S : \A y \in S : z >= y
  BY <1>3, <1>4
<1>6. Max(S) \in S /\ \A y \in S : Max(S) >= y
  BY <1>5 DEF Max
<1> QED
  BY <1>6

(***************************************************************************)
(* Times.                                                                  *)
(***************************************************************************)
Anchors(network) == GATE_BLOCK_TIMES \cup networkGateTimes(network)

\* The sentinel and the flag days are times, the first before the sentinel.
LEMMA NeverIs == NEVER \in Nat /\ CONTRACT_ERA_BLOCK_TIME \in Nat /\ CONTRACT_ERA_BLOCK_TIME < NEVER
                 /\ REST_PATTERN_METER_GATE_BLOCK_TIME \in Nat
BY SMT DEF NEVER, CONTRACT_ERA_BLOCK_TIME, REST_PATTERN_METER_GATE_BLOCK_TIME

\* The gates of a network, one by one: GateTime where an unknown network is
\* mainnet, OwnTime where it has none.
LEMMA GatesAre ==
  ASSUME NEW network
  PROVE  LET gates == TIME_NETWORK_GATES(network)
         IN  /\ DOMAIN gates = {"jsonHooks", "metaRequired", "initStrict", "ceilingSuccess", "iterSet",
                               "applyLength", "hostCallBounds", "perElement", "stringReceiver",
                               "stringResult", "toStringSize"}
             /\ gates.jsonHooks = GateTime(JSON_STRINGIFY_HOOK_ACTIVATION, network)
             /\ gates.metaRequired = GateTime(CONTRACT_META_REQUIRED_TIMES, network)
             /\ gates.initStrict = GateTime(DEPLOY_INIT_STRICT_TIMES, network)
             /\ gates.ceilingSuccess = OwnTime(GAS_CEILING_SUCCESS_ACTIVATION, network)
             /\ gates.iterSet = OwnTime(ITER_SET_METER_ACTIVATION, network)
             /\ gates.applyLength = OwnTime(APPLY_LENGTH_METER_ACTIVATION, network)
             /\ gates.hostCallBounds = OwnTime(HOST_CALL_BOUNDS_ACTIVATION, network)
             /\ gates.perElement = OwnTime(PER_ELEMENT_METER_ACTIVATION, network)
             /\ gates.stringReceiver = OwnTime(STRING_RECEIVER_METER_ACTIVATION, network)
             /\ gates.stringResult = OwnTime(STRING_RESULT_METER_ACTIVATION, network)
             /\ gates.toStringSize = GateTime(TOSTRING_SIZE_METER_ACTIVATION, network)
BY DEF TIME_NETWORK_GATES

\* Every table holds times.
LEMMA TablesAre ==
  /\ \A network : \A t \in Nat : OwnTime(TimeTable(t), network) \in Int
  /\ \A network : \A t \in Nat : GateTime([TimeTable(t) EXCEPT !.mainnet = NEVER], network) \in Int
  /\ \A network : GateTime(CONTRACT_META_REQUIRED_TIMES, network) \in Int
                  /\ GateTime(DEPLOY_INIT_STRICT_TIMES, network) \in Int
<1>1. ASSUME NEW network, NEW t \in Nat
      PROVE  OwnTime(TimeTable(t), network) \in Int
  BY DEF OwnTime, TimeTable, Unarmed
<1>2. ASSUME NEW network, NEW t \in Nat
      PROVE  GateTime([TimeTable(t) EXCEPT !.mainnet = NEVER], network) \in Int
  BY NeverIs DEF GateTime, TimeTable
<1>3. ASSUME NEW network
      PROVE  GateTime(CONTRACT_META_REQUIRED_TIMES, network) \in Int
             /\ GateTime(DEPLOY_INIT_STRICT_TIMES, network) \in Int
  BY SMT DEF GateTime, CONTRACT_META_REQUIRED_TIMES, DEPLOY_INIT_STRICT_TIMES
<1> QED
  BY <1>1, <1>2, <1>3

\* Each gate of a network is a number.
LEMMA GatesAreTimes ==
  ASSUME NEW network, NEW g \in DOMAIN TIME_NETWORK_GATES(network)
  PROVE  TIME_NETWORK_GATES(network)[g] \in Int
<1>1. OwnTime(GAS_CEILING_SUCCESS_ACTIVATION, network) \in Int
  BY TablesAre, SMT DEF GAS_CEILING_SUCCESS_ACTIVATION
<1>2. OwnTime(ITER_SET_METER_ACTIVATION, network) \in Int
  BY TablesAre, SMT DEF ITER_SET_METER_ACTIVATION
<1>3. OwnTime(APPLY_LENGTH_METER_ACTIVATION, network) \in Int
  BY TablesAre, SMT DEF APPLY_LENGTH_METER_ACTIVATION
<1>4. OwnTime(HOST_CALL_BOUNDS_ACTIVATION, network) \in Int
  BY TablesAre, SMT DEF HOST_CALL_BOUNDS_ACTIVATION
<1>5. OwnTime(PER_ELEMENT_METER_ACTIVATION, network) \in Int
  BY TablesAre, SMT DEF PER_ELEMENT_METER_ACTIVATION
<1>6. OwnTime(STRING_RECEIVER_METER_ACTIVATION, network) \in Int
  BY TablesAre, SMT DEF STRING_RECEIVER_METER_ACTIVATION
<1>7. OwnTime(STRING_RESULT_METER_ACTIVATION, network) \in Int
  BY TablesAre, SMT DEF STRING_RESULT_METER_ACTIVATION
<1>8. GateTime(JSON_STRINGIFY_HOOK_ACTIVATION, network) \in Int
  BY TablesAre, SMT DEF JSON_STRINGIFY_HOOK_ACTIVATION
<1>9. GateTime(TOSTRING_SIZE_METER_ACTIVATION, network) \in Int
  BY TablesAre, SMT DEF TOSTRING_SIZE_METER_ACTIVATION
<1> QED
  BY <1>1, <1>2, <1>3, <1>4, <1>5, <1>6, <1>7, <1>8, <1>9, TablesAre, GatesAre

\* The anchors of a network: the scalar flag days and the armed gates of its tables.
LEMMA AnchorsAre ==
  ASSUME NEW network
  PROVE  /\ Anchors(network) \subseteq Nat /\ \A t \in Anchors(network) : t < NEVER
         /\ CONTRACT_ERA_BLOCK_TIME \in Anchors(network)
         /\ REST_PATTERN_METER_GATE_BLOCK_TIME \in Anchors(network)
         /\ \A g \in DOMAIN TIME_NETWORK_GATES(network) :
               LET t == TIME_NETWORK_GATES(network)[g] IN t > 0 /\ t < NEVER => t \in Anchors(network)
<1>1. GATE_BLOCK_TIMES = {CONTRACT_ERA_BLOCK_TIME, REST_PATTERN_METER_GATE_BLOCK_TIME}
  BY SMT DEF GATE_BLOCK_TIMES, isArmedGateTime, Finite, CONTRACT_ERA_BLOCK_TIME,
     REST_PATTERN_METER_GATE_BLOCK_TIME, NEVER
<1>2. \A t \in GATE_BLOCK_TIMES : t \in Nat /\ t < NEVER
  BY <1>1, SMT DEF CONTRACT_ERA_BLOCK_TIME, REST_PATTERN_METER_GATE_BLOCK_TIME, NEVER
<1>3. \A t \in networkGateTimes(network) : t \in Nat /\ t < NEVER
  BY GatesAreTimes, NeverIs DEF networkGateTimes, isArmedGateTime, Finite
<1>4. ASSUME NEW g \in DOMAIN TIME_NETWORK_GATES(network),
             TIME_NETWORK_GATES(network)[g] > 0, TIME_NETWORK_GATES(network)[g] < NEVER
      PROVE  TIME_NETWORK_GATES(network)[g] \in networkGateTimes(network)
  BY <1>4, GatesAreTimes, NeverIs DEF networkGateTimes, isArmedGateTime, Finite
<1> QED
  BY <1>1, <1>2, <1>3, <1>4 DEF Anchors

\* The live anchor is the latest that has elapsed, the scheduled one the latest.
LEMMA LiveIs ==
  ASSUME NEW network, NEW now \in Clocks
  PROVE  LET live == liveBlockTime(now, network)
         IN  /\ live \in Nat /\ live <= now /\ now \in Nat /\ now < NEVER
             /\ live \in Anchors(network)
             /\ \A t \in Anchors(network) : t <= now => t <= live
<1>1. now \in Nat /\ now >= CONTRACT_ERA_BLOCK_TIME /\ now < NEVER
  BY EpochAssumption, NeverIs
<1> DEFINE elapsed == {t \in Anchors(network) : t <= now}
<1>2. elapsed \subseteq Nat /\ CONTRACT_ERA_BLOCK_TIME \in elapsed /\ elapsed \subseteq Anchors(network)
  BY <1>1, AnchorsAre
<1>3. Max(elapsed) \in elapsed /\ \A y \in elapsed : y <= Max(elapsed)
  BY <1>1, <1>2, MaxOf
<1>4. liveBlockTime(now, network) = Max(elapsed)
  BY <1>2 DEF liveBlockTime, Anchors
<1> QED
  BY <1>1, <1>2, <1>3, <1>4

\* scheduledBlockTime: the latest of all.
LEMMA ScheduledIs ==
  ASSUME NEW network
  PROVE  /\ scheduledBlockTime(network) \in Anchors(network) /\ scheduledBlockTime(network) \in Nat
         /\ \A t \in Anchors(network) : t <= scheduledBlockTime(network)
<1>1. /\ Anchors(network) \subseteq Nat /\ CONTRACT_ERA_BLOCK_TIME \in Anchors(network)
      /\ \A t \in Anchors(network) : t <= NEVER
  BY AnchorsAre, NeverIs
<1>2. NEVER \in Nat
  BY NeverIs
<1>3. /\ Max(Anchors(network)) \in Anchors(network)
      /\ \A y \in Anchors(network) : y <= Max(Anchors(network))
  BY <1>1, <1>2, MaxOf
<1>4. scheduledBlockTime(network) = Max(Anchors(network))
  BY <1>1 DEF scheduledBlockTime, Anchors
<1> QED
  BY <1>1, <1>3, <1>4

\* With nothing ahead the two are one.
LEMMA NothingAhead ==
  ASSUME NEW network, NEW now \in Clocks, gatesAheadOf(liveBlockTime(now, network), network) = {}
  PROVE  scheduledBlockTime(network) = liveBlockTime(now, network)
<1> DEFINE live == liveBlockTime(now, network)
<1>1. live \in Nat /\ live \in Anchors(network)
  BY LiveIs
<1>2. \A t \in GATE_BLOCK_TIMES : ~(t > live)
  BY DEF gatesAheadOf
<1>3. \A t \in networkGateTimes(network) : ~(t > live)
  BY DEF gatesAheadOf, networkGateTimes
<1> HIDE DEF live
<1>4. \A t \in Anchors(network) : t <= live
  BY <1>1, <1>2, <1>3, AnchorsAre DEF Anchors
<1> QED
  BY <1>1, <1>4, ScheduledIs DEF live

(***************************************************************************)
(* The block-time rules switch at the anchors only.                        *)
(***************************************************************************)
\* The names of the block-time rules.
RuleNames == {"async", "evalOrder", "rest", "jsonHooks", "iterSet", "applyLength", "hostCallBounds",
              "perElement", "stringReceiver", "stringResult", "ceilingSuccess", "toStringSize",
              "metaRequired", "initStrict"}

\* The rules of a block, one by one.
LEMMA TimeRulesAre ==
  ASSUME NEW b
  PROVE  /\ TimeRules(b) \subseteq RuleNames
         /\ "async" \in TimeRules(b) <=> isAsyncSurfaceActive(b)
         /\ "evalOrder" \in TimeRules(b) <=> isMeteringEvalOrderActive(b)
         /\ "rest" \in TimeRules(b) <=> isRestPatternMeterActive(b)
         /\ "jsonHooks" \in TimeRules(b) <=> isJsonHookActive(b)
         /\ "iterSet" \in TimeRules(b) <=> TimeGate(ITER_SET_METER_ACTIVATION, b)
         /\ "applyLength" \in TimeRules(b) <=> TimeGate(APPLY_LENGTH_METER_ACTIVATION, b)
         /\ "hostCallBounds" \in TimeRules(b) <=> TimeGate(HOST_CALL_BOUNDS_ACTIVATION, b)
         /\ "perElement" \in TimeRules(b) <=> TimeGate(PER_ELEMENT_METER_ACTIVATION, b)
         /\ "stringReceiver" \in TimeRules(b) <=> TimeGate(STRING_RECEIVER_METER_ACTIVATION, b)
         /\ "stringResult" \in TimeRules(b) <=> TimeGate(STRING_RESULT_METER_ACTIVATION, b)
         /\ "ceilingSuccess" \in TimeRules(b) <=> TimeGate(GAS_CEILING_SUCCESS_ACTIVATION, b)
         /\ "toStringSize" \in TimeRules(b) <=> isToStringSizeMeterActive(b)
         /\ "metaRequired" \in TimeRules(b) <=>
               b.time >= GateTime(CONTRACT_META_REQUIRED_TIMES, b.network)
         /\ "initStrict" \in TimeRules(b) <=> b.time >= GateTime(DEPLOY_INIT_STRICT_TIMES, b.network)
<1> DEFINE on ==
             [async |-> isAsyncSurfaceActive(b), evalOrder |-> isMeteringEvalOrderActive(b),
              rest |-> isRestPatternMeterActive(b), jsonHooks |-> isJsonHookActive(b),
              iterSet |-> TimeGate(ITER_SET_METER_ACTIVATION, b),
              applyLength |-> TimeGate(APPLY_LENGTH_METER_ACTIVATION, b),
              hostCallBounds |-> TimeGate(HOST_CALL_BOUNDS_ACTIVATION, b),
              perElement |-> TimeGate(PER_ELEMENT_METER_ACTIVATION, b),
              stringReceiver |-> TimeGate(STRING_RECEIVER_METER_ACTIVATION, b),
              stringResult |-> TimeGate(STRING_RESULT_METER_ACTIVATION, b),
              ceilingSuccess |-> TimeGate(GAS_CEILING_SUCCESS_ACTIVATION, b),
              toStringSize |-> isToStringSizeMeterActive(b),
              metaRequired |-> b.time >= GateTime(CONTRACT_META_REQUIRED_TIMES, b.network),
              initStrict |-> b.time >= GateTime(DEPLOY_INIT_STRICT_TIMES, b.network)]
<1>1. TimeRules(b) = {r \in DOMAIN on : on[r]}
  BY Zenon DEF TimeRules
<1>2. DOMAIN on = RuleNames
  BY SMT DEF RuleNames
<1>3. on.async = (isAsyncSurfaceActive(b))
  OBVIOUS
<1>4. on.evalOrder = (isMeteringEvalOrderActive(b))
  OBVIOUS
<1>5. on.rest = (isRestPatternMeterActive(b))
  OBVIOUS
<1>6. on.jsonHooks = (isJsonHookActive(b))
  OBVIOUS
<1>7. on.iterSet = (TimeGate(ITER_SET_METER_ACTIVATION, b))
  OBVIOUS
<1>8. on.applyLength = (TimeGate(APPLY_LENGTH_METER_ACTIVATION, b))
  OBVIOUS
<1>9. on.hostCallBounds = (TimeGate(HOST_CALL_BOUNDS_ACTIVATION, b))
  OBVIOUS
<1>10. on.perElement = (TimeGate(PER_ELEMENT_METER_ACTIVATION, b))
  OBVIOUS
<1>11. on.stringReceiver = (TimeGate(STRING_RECEIVER_METER_ACTIVATION, b))
  OBVIOUS
<1>12. on.stringResult = (TimeGate(STRING_RESULT_METER_ACTIVATION, b))
  OBVIOUS
<1>13. on.ceilingSuccess = (TimeGate(GAS_CEILING_SUCCESS_ACTIVATION, b))
  OBVIOUS
<1>14. on.toStringSize = (isToStringSizeMeterActive(b))
  OBVIOUS
<1>15. on.metaRequired = (b.time >= GateTime(CONTRACT_META_REQUIRED_TIMES, b.network))
  OBVIOUS
<1>16. on.initStrict = (b.time >= GateTime(DEPLOY_INIT_STRICT_TIMES, b.network))
  OBVIOUS
<1> HIDE DEF on
<1>17. \A r : r \in TimeRules(b) <=> r \in RuleNames /\ on[r]
  BY <1>1, <1>2
<1> QED
  BY <1>17, <1>3, <1>4, <1>5, <1>6, <1>7, <1>8, <1>9, <1>10, <1>11, <1>12, <1>13, <1>14, <1>15, <1>16 DEF RuleNames

\* A gate of a table is a threshold, and never where the table has no time.
LEMMA TableGate ==
  ASSUME NEW table, NEW b, b.time \in Nat, OwnTime(table, b.network) \in Int
  PROVE  TimeGate(table, b) <=> OwnTime(table, b.network) >= 0 /\ b.time >= OwnTime(table, b.network)
BY SMT DEF TimeGate, OwnTime, Finite, Unarmed

\* A threshold that is no anchor above zero is not crossed between two times with
\* no anchor between them.
LEMMA Uncrossed ==
  ASSUME NEW network, NEW t1 \in Nat, NEW t2 \in Nat, NEW o \in Int,
         t2 < NEVER, \A a \in Anchors(network) : a <= t2 => a <= t1,
         o > 0 /\ o < NEVER => o \in Anchors(network), t2 >= o
  PROVE  t1 >= o
BY NeverIs

\* What holds of a rule's gate at two blocks of one network ...
Grows(b1, b2) == b1.network = b2.network /\ b1.time \in Nat /\ b2.time \in Nat /\ b1.time <= b2.time
Level(b1, b2) == /\ Grows(b1, b2) /\ b2.time < NEVER
                 /\ \A a \in Anchors(b1.network) : a <= b2.time => a <= b1.time

\* ... of a flag day,
LEMMA FlagDays ==
  ASSUME NEW b1, NEW b2, Grows(b1, b2), NEW g \in Nat
  PROVE  /\ FlagDay(b1, g) => FlagDay(b2, g)
         /\ Level(b1, b2) /\ g \in Anchors(b1.network) => (FlagDay(b2, g) => FlagDay(b1, g))
BY DEF Grows, Level, FlagDay, Finite

\* ... of a threshold of a network,
LEMMA Thresholds ==
  ASSUME NEW b1, NEW b2, Grows(b1, b2), NEW o \in Int
  PROVE  /\ b1.time >= o => b2.time >= o
         /\ Level(b1, b2) /\ (o > 0 /\ o < NEVER => o \in Anchors(b1.network)) =>
               (b2.time >= o => b1.time >= o)
<1>1. b1.time \in Nat /\ b2.time \in Nat /\ b1.time <= b2.time
  BY DEF Grows
<1>2. b1.time >= o => b2.time >= o
  BY <1>1
<1>3. ASSUME Level(b1, b2), o > 0 /\ o < NEVER => o \in Anchors(b1.network), b2.time >= o
      PROVE  b1.time >= o
  <2>1. b2.time < NEVER /\ \A a \in Anchors(b1.network) : a <= b2.time => a <= b1.time
    BY <1>3 DEF Level
  <2> QED
    BY <1>1, <1>3, <2>1, Uncrossed
<1> QED
  BY <1>2, <1>3

\* ... and of a table's gate.
LEMMA TableGates ==
  ASSUME NEW b1, NEW b2, Grows(b1, b2), NEW table, OwnTime(table, b1.network) \in Int
  PROVE  /\ TimeGate(table, b1) => TimeGate(table, b2)
         /\ Level(b1, b2) /\ (LET o == OwnTime(table, b1.network)
                              IN  o > 0 /\ o < NEVER => o \in Anchors(b1.network)) =>
               (TimeGate(table, b2) => TimeGate(table, b1))
<1> DEFINE o == OwnTime(table, b1.network)
<1>1. b1.network = b2.network /\ b1.time \in Nat /\ b2.time \in Nat
  BY DEF Grows
<1>2. TimeGate(table, b1) <=> o >= 0 /\ b1.time >= o
  BY <1>1, TableGate
<1>3. OwnTime(table, b2.network) = o
  BY <1>1
<1>4. TimeGate(table, b2) <=> o >= 0 /\ b2.time >= o
  BY <1>1, <1>3, TableGate
<1>5. o \in Int
  OBVIOUS
<1> HIDE DEF o
<1>6. /\ b1.time >= o => b2.time >= o
      /\ Level(b1, b2) /\ (o > 0 /\ o < NEVER => o \in Anchors(b1.network)) =>
            (b2.time >= o => b1.time >= o)
  BY <1>5, Thresholds
<1>7. /\ TimeGate(table, b1) => TimeGate(table, b2)
      /\ Level(b1, b2) /\ (o > 0 /\ o < NEVER => o \in Anchors(b1.network)) =>
            (TimeGate(table, b2) => TimeGate(table, b1))
  BY <1>2, <1>4, <1>6
<1> QED
  BY <1>7 DEF o

\* The rules of a later block, and of one with no anchor in between.
LEMMA RulesGrow ==
  ASSUME NEW b1, NEW b2, Grows(b1, b2)
  PROVE  /\ TimeRules(b1) \subseteq TimeRules(b2)
         /\ Level(b1, b2) => TimeRules(b1) = TimeRules(b2)
<1> DEFINE network == b1.network
           gates == TIME_NETWORK_GATES(network)
           Keeps(r) == /\ r \in TimeRules(b1) => r \in TimeRules(b2)
                       /\ Level(b1, b2) => (r \in TimeRules(b2) => r \in TimeRules(b1))
<1>1. b1.network = b2.network
  BY DEF Grows
<1>2. /\ CONTRACT_ERA_BLOCK_TIME \in Nat /\ REST_PATTERN_METER_GATE_BLOCK_TIME \in Nat
      /\ CONTRACT_ERA_BLOCK_TIME \in Anchors(network)
      /\ REST_PATTERN_METER_GATE_BLOCK_TIME \in Anchors(network)
  BY NeverIs, AnchorsAre
<1>3. \A g \in DOMAIN gates : gates[g] \in Int /\ (gates[g] > 0 /\ gates[g] < NEVER => gates[g] \in Anchors(network))
  BY GatesAreTimes, AnchorsAre
<1> HIDE DEF gates
<1>4. Keeps("async") /\ Keeps("evalOrder")
  BY <1>2, TimeRulesAre, FlagDays DEF isAsyncSurfaceActive, isMeteringEvalOrderActive
<1>5. Keeps("rest")
  BY <1>2, TimeRulesAre, FlagDays DEF isRestPatternMeterActive
<1>6. Keeps("iterSet")
  <2>1. OwnTime(ITER_SET_METER_ACTIVATION, network) = gates["iterSet"] /\ "iterSet" \in DOMAIN gates
    BY GatesAre DEF gates
  <2> QED
    BY <1>3, <2>1, TimeRulesAre, TableGates
<1>7. Keeps("applyLength")
  <2>1. OwnTime(APPLY_LENGTH_METER_ACTIVATION, network) = gates["applyLength"] /\ "applyLength" \in DOMAIN gates
    BY GatesAre DEF gates
  <2> QED
    BY <1>3, <2>1, TimeRulesAre, TableGates
<1>8. Keeps("hostCallBounds")
  <2>1. OwnTime(HOST_CALL_BOUNDS_ACTIVATION, network) = gates["hostCallBounds"] /\ "hostCallBounds" \in DOMAIN gates
    BY GatesAre DEF gates
  <2> QED
    BY <1>3, <2>1, TimeRulesAre, TableGates
<1>9. Keeps("perElement")
  <2>1. OwnTime(PER_ELEMENT_METER_ACTIVATION, network) = gates["perElement"] /\ "perElement" \in DOMAIN gates
    BY GatesAre DEF gates
  <2> QED
    BY <1>3, <2>1, TimeRulesAre, TableGates
<1>10. Keeps("stringReceiver")
  <2>1. OwnTime(STRING_RECEIVER_METER_ACTIVATION, network) = gates["stringReceiver"] /\ "stringReceiver" \in DOMAIN gates
    BY GatesAre DEF gates
  <2> QED
    BY <1>3, <2>1, TimeRulesAre, TableGates
<1>11. Keeps("stringResult")
  <2>1. OwnTime(STRING_RESULT_METER_ACTIVATION, network) = gates["stringResult"] /\ "stringResult" \in DOMAIN gates
    BY GatesAre DEF gates
  <2> QED
    BY <1>3, <2>1, TimeRulesAre, TableGates
<1>12. Keeps("ceilingSuccess")
  <2>1. OwnTime(GAS_CEILING_SUCCESS_ACTIVATION, network) = gates["ceilingSuccess"] /\ "ceilingSuccess" \in DOMAIN gates
    BY GatesAre DEF gates
  <2> QED
    BY <1>3, <2>1, TimeRulesAre, TableGates
<1>13. Keeps("metaRequired")
  <2>1. GateTime(CONTRACT_META_REQUIRED_TIMES, network) = gates["metaRequired"] /\ "metaRequired" \in DOMAIN gates
    BY GatesAre DEF gates
  <2>2. GateTime(CONTRACT_META_REQUIRED_TIMES, b2.network) = gates["metaRequired"]
    BY <1>1, <2>1
  <2> QED
    BY <1>3, <2>1, <2>2, TimeRulesAre, Thresholds
<1>14. Keeps("initStrict")
  <2>1. GateTime(DEPLOY_INIT_STRICT_TIMES, network) = gates["initStrict"] /\ "initStrict" \in DOMAIN gates
    BY GatesAre DEF gates
  <2>2. GateTime(DEPLOY_INIT_STRICT_TIMES, b2.network) = gates["initStrict"]
    BY <1>1, <2>1
  <2> QED
    BY <1>3, <2>1, <2>2, TimeRulesAre, Thresholds
<1>15. b1.time \in Nat /\ b2.time \in Nat
  BY DEF Grows
<1>16. Keeps("toStringSize")
  <2>1. GateTime(TOSTRING_SIZE_METER_ACTIVATION, network) = gates["toStringSize"] /\ "toStringSize" \in DOMAIN gates
    BY GatesAre DEF gates
  <2>2. GateTime(TOSTRING_SIZE_METER_ACTIVATION, b2.network) = gates["toStringSize"]
    BY <1>1, <2>1
  <2>3. gates["toStringSize"] \in Int
    BY <1>3, <2>1
  <2>4. /\ "toStringSize" \in TimeRules(b1) <=> b1.time >= gates["toStringSize"]
        /\ "toStringSize" \in TimeRules(b2) <=> b2.time >= gates["toStringSize"]
    BY <1>15, <2>1, <2>2, <2>3, TimeRulesAre DEF isToStringSizeMeterActive, Finite
  <2> QED
    BY <1>3, <2>1, <2>4, Thresholds
<1>17. Keeps("jsonHooks")
  <2>1. GateTime(JSON_STRINGIFY_HOOK_ACTIVATION, network) = gates["jsonHooks"] /\ "jsonHooks" \in DOMAIN gates
    BY GatesAre DEF gates
  <2>2. GateTime(JSON_STRINGIFY_HOOK_ACTIVATION, b2.network) = gates["jsonHooks"]
    BY <1>1, <2>1
  <2>3. /\ "jsonHooks" \in TimeRules(b1) <=>
              b1.time >= CONTRACT_ERA_BLOCK_TIME /\ b1.time >= gates["jsonHooks"]
        /\ "jsonHooks" \in TimeRules(b2) <=>
              b2.time >= CONTRACT_ERA_BLOCK_TIME /\ b2.time >= gates["jsonHooks"]
    BY <1>15, <2>1, <2>2, TimeRulesAre DEF isJsonHookActive, PlainTime, Finite
  <2> QED
    BY <1>2, <1>3, <2>1, <2>3, Thresholds
<1>18. \A r \in RuleNames : Keeps(r)
  BY <1>4, <1>5, <1>6, <1>7, <1>8, <1>9, <1>10, <1>11, <1>12, <1>13, <1>14, <1>16, <1>17 DEF RuleNames
<1>19. TimeRules(b1) \subseteq RuleNames /\ TimeRules(b2) \subseteq RuleNames
  BY TimeRulesAre
<1> QED
  BY <1>18, <1>19

(***************************************************************************)
(* The height gates.                                                       *)
(***************************************************************************)
Tabled == {"BTC", "LTC", "DOGE"}
TablesBelowTip == [Tabled -> 0 .. Tip]

\* The tip is above every height the tables name.
LEMMA TipIs == Tip \in Nat /\ Tip >= 70000000
BY SMT DEF Tip

\* What HeightTable makes is a table.
LEMMA ATable ==
  ASSUME NEW btc \in Nat, NEW ltc \in Nat, NEW doge \in Nat,
         btc <= Tip, ltc <= Tip, doge <= Tip
  PROVE  HeightTable(btc, ltc, doge) \in TablesBelowTip
BY TipIs DEF HeightTable, TablesBelowTip, Tabled

\* Every table of heights lies below the tip.
LEMMA HeightsAre ==
  /\ PKG3_SANDBOX_ACTIVATION \in TablesBelowTip
  /\ EXEC_LINT_ACTIVATION \in TablesBelowTip
  /\ LINT_GLOBAL_ALIAS_ACTIVATION \in TablesBelowTip
  /\ LINT_OPTIONAL_CHAIN_ACTIVATION \in TablesBelowTip
  /\ LINT_BANNED_WITH_ACTIVATION \in TablesBelowTip
  /\ LINT_DESTRUCTURE_ACTIVATION \in TablesBelowTip
  /\ LINT_SYNTAX_DEPTH_ACTIVATION \in TablesBelowTip
  /\ BIGINT_SURFACE_STRIP_ACTIVATION \in TablesBelowTip
  /\ GAS_CEILING_EXHAUSTED_ACTIVATION \in TablesBelowTip
  /\ RESOURCE_FAULT_SIGNAL_ACTIVATION \in TablesBelowTip
  /\ HOST_ERROR_STACK_STRIP_ACTIVATION \in TablesBelowTip
  /\ HOST_FAULT_HALT_ACTIVATION \in TablesBelowTip
  /\ JSON_STRINGIFY_REENTRY_ACTIVATION \in TablesBelowTip
  /\ NATIVE_STACK_TERMINAL_ACTIVATION \in TablesBelowTip
<1>1. PKG3_SANDBOX_ACTIVATION \in TablesBelowTip
  BY ATable, TipIs, SMT DEF PKG3_SANDBOX_ACTIVATION
<1>2. EXEC_LINT_ACTIVATION \in TablesBelowTip
  BY ATable, TipIs, SMT DEF EXEC_LINT_ACTIVATION
<1>3. LINT_GLOBAL_ALIAS_ACTIVATION \in TablesBelowTip
  BY ATable, TipIs, SMT DEF LINT_GLOBAL_ALIAS_ACTIVATION
<1>4. LINT_OPTIONAL_CHAIN_ACTIVATION \in TablesBelowTip
  BY ATable, TipIs, SMT DEF LINT_OPTIONAL_CHAIN_ACTIVATION
<1>5. LINT_BANNED_WITH_ACTIVATION \in TablesBelowTip
  BY ATable, TipIs, SMT DEF LINT_BANNED_WITH_ACTIVATION
<1>6. LINT_DESTRUCTURE_ACTIVATION \in TablesBelowTip
  BY ATable, TipIs, SMT DEF LINT_DESTRUCTURE_ACTIVATION
<1>7. LINT_SYNTAX_DEPTH_ACTIVATION \in TablesBelowTip
  BY ATable, TipIs, SMT DEF LINT_SYNTAX_DEPTH_ACTIVATION
<1>8. BIGINT_SURFACE_STRIP_ACTIVATION \in TablesBelowTip
  BY ATable, TipIs, SMT DEF BIGINT_SURFACE_STRIP_ACTIVATION
<1>9. GAS_CEILING_EXHAUSTED_ACTIVATION \in TablesBelowTip
  BY ATable, TipIs, SMT DEF GAS_CEILING_EXHAUSTED_ACTIVATION
<1>10. RESOURCE_FAULT_SIGNAL_ACTIVATION \in TablesBelowTip
  BY ATable, TipIs, SMT DEF RESOURCE_FAULT_SIGNAL_ACTIVATION
<1>11. HOST_ERROR_STACK_STRIP_ACTIVATION \in TablesBelowTip
  BY ATable, TipIs, SMT DEF HOST_ERROR_STACK_STRIP_ACTIVATION
<1>12. HOST_FAULT_HALT_ACTIVATION \in TablesBelowTip
  BY ATable, TipIs, SMT DEF HOST_FAULT_HALT_ACTIVATION
<1>13. JSON_STRINGIFY_REENTRY_ACTIVATION \in TablesBelowTip
  BY ATable, TipIs, SMT DEF JSON_STRINGIFY_REENTRY_ACTIVATION
<1>14. NATIVE_STACK_TERMINAL_ACTIVATION \in TablesBelowTip
  BY ATable, TipIs, SMT DEF NATIVE_STACK_TERMINAL_ACTIVATION
<1> QED
  BY <1>1, <1>2, <1>3, <1>4, <1>5, <1>6, <1>7, <1>8, <1>9, <1>10, <1>11, <1>12, <1>13, <1>14

\* The names of the height gates.
GateNames == {"pkg3Sandbox", "execLint", "globalAlias", "optionalChain", "bannedWith", "destructure",
              "syntaxDepth", "bigIntStrip", "ceilingExhausted", "resourceFault", "errorStackStrip",
              "hostFaultHalt", "stringifyReentry", "nativeStack"}

\* The two kinds of height gates.
OfMainnet(g, b) == /\ HEIGHT_MAPS[g].network = "mainnet"
                   /\ HEIGHT_GATES(b)[g] = resolvePerCoinHeightGate(HEIGHT_MAPS[g].heights, b)
OfTestnet(g, b) == /\ HEIGHT_MAPS[g].network = "testnet"
                   /\ HEIGHT_GATES(b)[g] = resolveRegtestGenesisHeightGate(HEIGHT_MAPS[g].heights, b)

\* HEIGHT_GATES and HEIGHT_MAPS, gate by gate: on mainnet from a height and
\* before launch from genesis, or on testnet from a height and on regtest from genesis.
LEMMA HeightGatesAre ==
  ASSUME NEW b
  PROVE  /\ DOMAIN HEIGHT_GATES(b) = GateNames /\ DOMAIN HEIGHT_MAPS = GateNames
         /\ \A g \in GateNames : /\ HEIGHT_MAPS[g].heights \in TablesBelowTip
                                 /\ OfMainnet(g, b) \/ OfTestnet(g, b)
<1> DEFINE maps == HEIGHT_MAPS
           on == HEIGHT_GATES(b)
<1>1. DOMAIN on = GateNames
  BY SMT DEF HEIGHT_GATES, GateNames
<1>2. DOMAIN maps = GateNames
  BY SMT DEF HEIGHT_MAPS, GateNames
<1>3. maps.pkg3Sandbox.network = "mainnet" /\ maps.pkg3Sandbox.heights = PKG3_SANDBOX_ACTIVATION
      /\ on.pkg3Sandbox = isPkg3SandboxActive(b)
  BY SMT DEF HEIGHT_MAPS, HEIGHT_GATES, HeightMap
<1>4. maps.execLint.network = "mainnet" /\ maps.execLint.heights = EXEC_LINT_ACTIVATION
      /\ on.execLint = isExecLintActive(b)
  BY SMT DEF HEIGHT_MAPS, HEIGHT_GATES, HeightMap
<1>5. maps.globalAlias.network = "mainnet" /\ maps.globalAlias.heights = LINT_GLOBAL_ALIAS_ACTIVATION
      /\ on.globalAlias = isLintGlobalAliasActive(b)
  BY SMT DEF HEIGHT_MAPS, HEIGHT_GATES, HeightMap
<1>6. maps.optionalChain.network = "testnet" /\ maps.optionalChain.heights = LINT_OPTIONAL_CHAIN_ACTIVATION
      /\ on.optionalChain = isLintOptionalChainActive(b)
  BY SMT DEF HEIGHT_MAPS, HEIGHT_GATES, HeightMap
<1>7. maps.bannedWith.network = "testnet" /\ maps.bannedWith.heights = LINT_BANNED_WITH_ACTIVATION
      /\ on.bannedWith = isLintBannedWithActive(b)
  BY SMT DEF HEIGHT_MAPS, HEIGHT_GATES, HeightMap
<1>8. maps.destructure.network = "testnet" /\ maps.destructure.heights = LINT_DESTRUCTURE_ACTIVATION
      /\ on.destructure = isLintDestructureActive(b)
  BY SMT DEF HEIGHT_MAPS, HEIGHT_GATES, HeightMap
<1>9. maps.syntaxDepth.network = "testnet" /\ maps.syntaxDepth.heights = LINT_SYNTAX_DEPTH_ACTIVATION
      /\ on.syntaxDepth = isLintSyntaxDepthActive(b)
  BY SMT DEF HEIGHT_MAPS, HEIGHT_GATES, HeightMap
<1>10. maps.bigIntStrip.network = "testnet" /\ maps.bigIntStrip.heights = BIGINT_SURFACE_STRIP_ACTIVATION
      /\ on.bigIntStrip = isBigIntSurfaceStripActive(b)
  BY SMT DEF HEIGHT_MAPS, HEIGHT_GATES, HeightMap
<1>11. maps.ceilingExhausted.network = "testnet" /\ maps.ceilingExhausted.heights = GAS_CEILING_EXHAUSTED_ACTIVATION
      /\ on.ceilingExhausted = isGasCeilingExhaustedActive(b)
  BY SMT DEF HEIGHT_MAPS, HEIGHT_GATES, HeightMap
<1>12. maps.resourceFault.network = "testnet" /\ maps.resourceFault.heights = RESOURCE_FAULT_SIGNAL_ACTIVATION
      /\ on.resourceFault = isResourceFaultSignalActive(b)
  BY SMT DEF HEIGHT_MAPS, HEIGHT_GATES, HeightMap
<1>13. maps.errorStackStrip.network = "testnet" /\ maps.errorStackStrip.heights = HOST_ERROR_STACK_STRIP_ACTIVATION
      /\ on.errorStackStrip = isHostErrorStackStripActive(b)
  BY SMT DEF HEIGHT_MAPS, HEIGHT_GATES, HeightMap
<1>14. maps.hostFaultHalt.network = "testnet" /\ maps.hostFaultHalt.heights = HOST_FAULT_HALT_ACTIVATION
      /\ on.hostFaultHalt = isHostFaultHaltActive(b)
  BY SMT DEF HEIGHT_MAPS, HEIGHT_GATES, HeightMap
<1>15. maps.stringifyReentry.network = "testnet" /\ maps.stringifyReentry.heights = JSON_STRINGIFY_REENTRY_ACTIVATION
      /\ on.stringifyReentry = isJsonStringifyReentryActive(b)
  BY SMT DEF HEIGHT_MAPS, HEIGHT_GATES, HeightMap
<1>16. maps.nativeStack.network = "testnet" /\ maps.nativeStack.heights = NATIVE_STACK_TERMINAL_ACTIVATION
      /\ on.nativeStack = isNativeStackTerminalActive(b)
  BY SMT DEF HEIGHT_MAPS, HEIGHT_GATES, HeightMap
<1>17. HEIGHT_MAPS["pkg3Sandbox"].heights \in TablesBelowTip /\ OfMainnet("pkg3Sandbox", b)
  BY <1>3, HeightsAre DEF OfMainnet, isPkg3SandboxActive
<1>18. HEIGHT_MAPS["execLint"].heights \in TablesBelowTip /\ OfMainnet("execLint", b)
  BY <1>4, HeightsAre DEF OfMainnet, isExecLintActive
<1>19. HEIGHT_MAPS["globalAlias"].heights \in TablesBelowTip /\ OfMainnet("globalAlias", b)
  BY <1>5, HeightsAre DEF OfMainnet, isLintGlobalAliasActive
<1>20. HEIGHT_MAPS["optionalChain"].heights \in TablesBelowTip /\ OfTestnet("optionalChain", b)
  BY <1>6, HeightsAre DEF OfTestnet, isLintOptionalChainActive
<1>21. HEIGHT_MAPS["bannedWith"].heights \in TablesBelowTip /\ OfTestnet("bannedWith", b)
  BY <1>7, HeightsAre DEF OfTestnet, isLintBannedWithActive
<1>22. HEIGHT_MAPS["destructure"].heights \in TablesBelowTip /\ OfTestnet("destructure", b)
  BY <1>8, HeightsAre DEF OfTestnet, isLintDestructureActive
<1>23. HEIGHT_MAPS["syntaxDepth"].heights \in TablesBelowTip /\ OfTestnet("syntaxDepth", b)
  BY <1>9, HeightsAre DEF OfTestnet, isLintSyntaxDepthActive
<1>24. HEIGHT_MAPS["bigIntStrip"].heights \in TablesBelowTip /\ OfTestnet("bigIntStrip", b)
  BY <1>10, HeightsAre DEF OfTestnet, isBigIntSurfaceStripActive
<1>25. HEIGHT_MAPS["ceilingExhausted"].heights \in TablesBelowTip /\ OfTestnet("ceilingExhausted", b)
  BY <1>11, HeightsAre DEF OfTestnet, isGasCeilingExhaustedActive
<1>26. HEIGHT_MAPS["resourceFault"].heights \in TablesBelowTip /\ OfTestnet("resourceFault", b)
  BY <1>12, HeightsAre DEF OfTestnet, isResourceFaultSignalActive
<1>27. HEIGHT_MAPS["errorStackStrip"].heights \in TablesBelowTip /\ OfTestnet("errorStackStrip", b)
  BY <1>13, HeightsAre DEF OfTestnet, isHostErrorStackStripActive
<1>28. HEIGHT_MAPS["hostFaultHalt"].heights \in TablesBelowTip /\ OfTestnet("hostFaultHalt", b)
  BY <1>14, HeightsAre DEF OfTestnet, isHostFaultHaltActive
<1>29. HEIGHT_MAPS["stringifyReentry"].heights \in TablesBelowTip /\ OfTestnet("stringifyReentry", b)
  BY <1>15, HeightsAre DEF OfTestnet, isJsonStringifyReentryActive
<1>30. HEIGHT_MAPS["nativeStack"].heights \in TablesBelowTip /\ OfTestnet("nativeStack", b)
  BY <1>16, HeightsAre DEF OfTestnet, isNativeStackTerminalActive
<1> QED
  BY <1>1, <1>2, <1>17, <1>18, <1>19, <1>20, <1>21, <1>22, <1>23, <1>24, <1>25, <1>26, <1>27, <1>28, <1>29, <1>30 DEF GateNames

\* The networks that run a gate from genesis.
Genesis(g) == IF HEIGHT_MAPS[g].network = "mainnet" THEN PreLaunch ELSE {"regtest"}

\* A gate is on from genesis on some networks, and from its threshold where it has one.
LEMMA GateAt ==
  ASSUME NEW g \in GateNames, NEW network, NEW coin, NEW h \in Nat, NEW t
  PROVE  LET thr == heightGateThreshold(g, coin, network)
         IN  /\ thr = Unarmed \/ (thr \in Nat /\ thr <= Tip)
             /\ HEIGHT_GATES(BlockAt(network, coin, h, t))[g] <=>
                   network \in Genesis(g) \/ (thr # Unarmed /\ h >= thr)
<1> DEFINE b == BlockAt(network, coin, h, t)
           map == HEIGHT_MAPS[g]
<1>1. b.network = network /\ b.coin = coin /\ b.height = h
  BY DEF BlockAt
<1>2. map.heights \in TablesBelowTip /\ (OfMainnet(g, b) \/ OfTestnet(g, b))
  BY HeightGatesAre
<1> HIDE DEF b
<1>3. DOMAIN map.heights = Tabled
  BY <1>2 DEF TablesBelowTip
<1>4. coin \in Tabled => map.heights[coin] \in Nat /\ map.heights[coin] <= Tip
  BY <1>2, TipIs DEF TablesBelowTip
<1>5. heightGateThreshold(g, coin, network) =
        IF network = map.network /\ coin \in Tabled THEN map.heights[coin] ELSE Unarmed
  BY <1>3 DEF heightGateThreshold
<1>6. Finite(h) /\ Unarmed \notin Nat
  BY DEF Finite, Unarmed
<1>7. CASE OfMainnet(g, b)
  <2>1. map.network = "mainnet"
    BY <1>7 DEF OfMainnet
  <2>2. HEIGHT_GATES(b)[g] <=> network \in PreLaunch \/ (network = "mainnet" /\ coin \in Tabled /\ h >= map.heights[coin])
    BY <1>1, <1>3, <1>6, <1>7 DEF OfMainnet, resolvePerCoinHeightGate
  <2>3. Genesis(g) = PreLaunch
    BY <2>1 DEF Genesis
  <2> QED
    BY <1>4, <1>5, <1>6, <2>1, <2>2, <2>3 DEF b
<1>8. CASE OfTestnet(g, b)
  <2>1. map.network = "testnet"
    BY <1>8 DEF OfTestnet
  <2>2. HEIGHT_GATES(b)[g] <=> network = "regtest" \/ (network = "testnet" /\ coin \in Tabled /\ h >= map.heights[coin])
    BY <1>1, <1>3, <1>6, <1>8 DEF OfTestnet, resolveRegtestGenesisHeightGate
  <2>3. Genesis(g) = {"regtest"}
    BY <2>1 DEF Genesis
  <2> QED
    BY <1>4, <1>5, <1>6, <2>1, <2>2, <2>3 DEF b
<1> QED
  BY <1>2, <1>7, <1>8

\* What a gate needs: nothing where it is never on, and a height that turns it on otherwise.
LEMMA NeedIs ==
  ASSUME NEW g \in GateNames, NEW network, NEW coin
  PROVE  LET need == heightGateNeed(g, coin, network)
             on(h, t) == HEIGHT_GATES(BlockAt(network, coin, h, t))[g]
         IN  /\ need = Unarmed \/ (need \in Nat /\ need >= 1 /\ need <= Tip)
             /\ need = Unarmed => \A h \in Nat : \A t : ~on(h, t)
             /\ need # Unarmed => \A h \in Nat : \A t : h >= need => on(h, t)
<1> DEFINE need == heightGateNeed(g, coin, network)
           thr == heightGateThreshold(g, coin, network)
           first == HEIGHT_GATES(BlockAt(network, coin, 1, NotANumber))[g]
           early == network \in Genesis(g)
<1>1. thr = Unarmed \/ (thr \in Nat /\ thr <= Tip)
  BY GateAt
<1>2. \A h \in Nat : \A t : HEIGHT_GATES(BlockAt(network, coin, h, t))[g] <=> early \/ (thr # Unarmed /\ h >= thr)
  BY GateAt
<1>3. first <=> early \/ (thr # Unarmed /\ 1 >= thr)
  BY GateAt
<1>4. need = IF first THEN 1 ELSE thr
  BY DEF heightGateNeed
<1> HIDE DEF need, thr, first, early
<1>5. need = Unarmed \/ (need \in Nat /\ need >= 1 /\ need <= Tip)
  BY <1>1, <1>3, <1>4, TipIs DEF Unarmed
<1>6. ASSUME need = Unarmed PROVE ~early /\ thr = Unarmed
  BY <1>1, <1>3, <1>4, <1>6 DEF Unarmed
<1>7. ASSUME need # Unarmed, NEW h \in Nat, h >= need
      PROVE  early \/ (thr # Unarmed /\ h >= thr)
  BY <1>1, <1>3, <1>4, <1>7 DEF Unarmed
<1>8. need = Unarmed => \A h \in Nat : \A t : ~HEIGHT_GATES(BlockAt(network, coin, h, t))[g]
  BY <1>2, <1>6
<1>9. need # Unarmed => \A h \in Nat : \A t : h >= need => HEIGHT_GATES(BlockAt(network, coin, h, t))[g]
  BY <1>2, <1>7
<1> QED
  BY <1>5, <1>8, <1>9 DEF need

\* The gates a coin and a network arm.
Armed(coin, network) == {g \in DOMAIN HEIGHT_MAPS : heightGateNeed(g, coin, network) # Unarmed}

\* They are the rules a chain ends up with, and those of a block on which all of them are.
LEMMA RulesOfHeight ==
  ASSUME NEW network, NEW coin, NEW h \in Nat, NEW t,
         \A g \in Armed(coin, network) : HEIGHT_GATES(BlockAt(network, coin, h, t))[g]
  PROVE  HeightRules(BlockAt(network, coin, h, t)) = Armed(coin, network)
<1> DEFINE b == BlockAt(network, coin, h, t)
<1>1. DOMAIN HEIGHT_GATES(b) = GateNames /\ DOMAIN HEIGHT_MAPS = GateNames
  BY HeightGatesAre
<1>2. \A g \in GateNames : heightGateNeed(g, coin, network) = Unarmed => ~HEIGHT_GATES(b)[g]
  BY NeedIs
<1>3. \A g \in Armed(coin, network) : g \in GateNames /\ HEIGHT_GATES(b)[g]
  BY <1>1 DEF Armed
<1>4. \A g : g \in HeightRules(b) <=> g \in GateNames /\ HEIGHT_GATES(b)[g]
  BY <1>1 DEF HeightRules
<1>5. \A g \in GateNames : heightGateNeed(g, coin, network) # Unarmed => g \in Armed(coin, network)
  BY <1>1 DEF Armed
<1> HIDE DEF b
<1>6. \A g : g \in HeightRules(b) <=> g \in Armed(coin, network)
  BY <1>2, <1>3, <1>4, <1>5
<1>7. HeightRules(b) = Armed(coin, network)
  BY <1>6 DEF HeightRules, Armed
<1> QED
  BY <1>7 DEF b

\* A chain past its last activation runs the armed gates.
LEMMA AtTheTip ==
  ASSUME NEW network, NEW coin, NEW t
  PROVE  HeightRules(BlockAt(network, coin, Tip, t)) = Armed(coin, network)
<1>1. ASSUME NEW g \in Armed(coin, network)
      PROVE  HEIGHT_GATES(BlockAt(network, coin, Tip, t))[g]
  <2>1. g \in GateNames /\ heightGateNeed(g, coin, network) # Unarmed
    BY <1>1, HeightGatesAre DEF Armed
  <2>2. Tip >= heightGateNeed(g, coin, network)
    BY <2>1, NeedIs, TipIs
  <2> QED
    BY <2>1, <2>2, NeedIs, TipIs
<1> QED
  BY <1>1, TipIs, RulesOfHeight

\* The default height clears them all.
LEMMA AtTheDefault ==
  ASSUME NEW network, NEW coin
  PROVE  /\ defaultBlockHeight(coin, network) \in Nat
         /\ \A t : \A g \in Armed(coin, network) :
               HEIGHT_GATES(BlockAt(network, coin, defaultBlockHeight(coin, network), t))[g]
<1> DEFINE needs == {heightGateNeed(g, coin, network) : g \in DOMAIN HEIGHT_MAPS} \ {Unarmed}
           default == defaultBlockHeight(coin, network)
<1>1. DOMAIN HEIGHT_MAPS = GateNames
  BY HeightGatesAre
<1>2. \A n \in needs : n \in Nat /\ n <= Tip
  BY <1>1, NeedIs
<1>3. \A g \in Armed(coin, network) : g \in GateNames /\ heightGateNeed(g, coin, network) \in needs
  BY <1>1 DEF Armed
<1>4. default = IF needs = {} THEN 1 ELSE Max(needs)
  BY DEF defaultBlockHeight
<1> HIDE DEF needs, default
<1>5. needs # {} => Max(needs) \in needs /\ \A n \in needs : n <= Max(needs)
  BY <1>2, TipIs, MaxOf
<1>6. default \in Nat /\ \A n \in needs : n <= default
  BY <1>2, <1>4, <1>5
<1>7. ASSUME NEW t, NEW g \in Armed(coin, network)
      PROVE  HEIGHT_GATES(BlockAt(network, coin, default, t))[g]
  <2>1. g \in GateNames /\ heightGateNeed(g, coin, network) \in Nat
        /\ default >= heightGateNeed(g, coin, network)
    BY <1>2, <1>3, <1>6
  <2>2. heightGateNeed(g, coin, network) # Unarmed
    BY <2>1 DEF Unarmed
  <2> QED
    BY <1>6, <2>1, <2>2, NeedIs
<1> QED
  BY <1>6, <1>7 DEF default

\* Every known network arms something for every coin of the tables.
LEMMA SomethingArmed ==
  ASSUME NEW network \in {"mainnet", "testnet", "regtest"}, NEW coin \in Tabled
  PROVE  Armed(coin, network) # {}
<1> DEFINE b == BlockAt(network, coin, 1, NotANumber)
<1>1. "execLint" \in GateNames
  BY DEF GateNames
<1>2. HEIGHT_GATES(b)["execLint"] <=> isExecLintActive(b)
  BY SMT DEF HEIGHT_GATES
<1>3. b.network = network /\ b.coin = coin /\ b.height = 1
  BY DEF BlockAt
<1> HIDE DEF b
<1>4. coin \in DOMAIN EXEC_LINT_ACTIVATION /\ EXEC_LINT_ACTIVATION[coin] = 0
  BY DEF EXEC_LINT_ACTIVATION, HeightTable, Tabled
<1>5. isExecLintActive(b)
  BY <1>3, <1>4 DEF isExecLintActive, resolvePerCoinHeightGate, PreLaunch, Finite
<1>6. heightGateNeed("execLint", coin, network) = 1
  BY <1>2, <1>5 DEF heightGateNeed, b
<1> QED
  BY <1>1, <1>6, HeightGatesAre DEF Armed, Unarmed

(***************************************************************************)
(* The invariant.                                                          *)
(***************************************************************************)
\* A simulator's own fields.
SimOk(s) ==
    /\ s.coin \in SimCoins \ {NoCoin} /\ s.now \in Clocks
    /\ s.live = liveBlockTime(s.now, s.network)

\* A block that is still the derived one is past every gate, and at the live anchor
\* unless the simulator said it is a preview.
DerivedOk(s, at, w) ==
    /\ at.height = defaultBlockHeight(s.coin, s.network)
    /\ at.time >= s.live
    /\ "preview" \notin w => at.time = s.live

EpochInv ==
    /\ simBlock.height \in Nat /\ simBlock.time \in Nat
    /\ lastRun.done => sim.made
    /\ sim.made => SimOk(sim)
    /\ sim.made /\ derived => DerivedOk(sim, simBlock, warned)
    /\ SimulatesTheChain

\* A simulator is made for a coin of the tables.
LEMMA CoinsAreTabled == SimCoins \ {NoCoin} \subseteq Tabled
BY EpochAssumption DEF HeightTable, Tabled

\* The lint of a deploy and of an execution in one block.
LEMMA LintsAgree ==
  ASSUME NEW b
  PROVE  execFlags(b) = deployFlags(b) \cup {"nestingDepth"}
<1> DEFINE Flags == {"async", "hardening", "pkg3", "globalAlias", "rest", "optionalChain", "with",
                     "destructure", "syntaxDepth"}
<1>1. /\ lintFlags(b) \subseteq Flags
      /\ "async" \in lintFlags(b) <=> isAsyncSurfaceActive(b)
      /\ "hardening" \in lintFlags(b) <=> isLintHardeningActive(b)
      /\ "pkg3" \in lintFlags(b) <=> isPkg3SandboxActive(b)
      /\ "globalAlias" \in lintFlags(b) <=> isLintGlobalAliasActive(b)
      /\ "rest" \in lintFlags(b) <=> isRestPatternMeterActive(b)
      /\ "optionalChain" \in lintFlags(b) <=> isLintOptionalChainActive(b)
      /\ "with" \in lintFlags(b) <=> isLintBannedWithActive(b)
      /\ "destructure" \in lintFlags(b) <=> isLintDestructureActive(b)
      /\ "syntaxDepth" \in lintFlags(b) <=> isLintSyntaxDepthActive(b)
  BY SMT DEF lintFlags
<1>2. /\ deployFlags(b) \subseteq Flags \cup {"nestingDepth"}
      /\ "async" \in deployFlags(b) <=> isAsyncSurfaceActive(b)
      /\ "hardening" \in deployFlags(b) <=> isLintHardeningActive(b)
      /\ "pkg3" \in deployFlags(b) <=> isPkg3SandboxActive(b)
      /\ "globalAlias" \in deployFlags(b) <=> isLintGlobalAliasActive(b)
      /\ "rest" \in deployFlags(b) <=> isRestPatternMeterActive(b)
      /\ "optionalChain" \in deployFlags(b) <=> isLintOptionalChainActive(b)
      /\ "with" \in deployFlags(b) <=> isLintBannedWithActive(b)
      /\ "destructure" \in deployFlags(b) <=> isLintDestructureActive(b)
      /\ "syntaxDepth" \in deployFlags(b) <=> isLintSyntaxDepthActive(b)
  BY SMT DEF deployFlags
<1>3. \A f \in Flags : f \in lintFlags(b) <=> f \in deployFlags(b)
  BY <1>1, <1>2
<1> HIDE DEF Flags
<1> QED
  BY <1>1, <1>2, <1>3 DEF execFlags

\* No simulator and no run: the invariant holds at first.
LEMMA EpochStart == EpochInit => EpochInv
BY DEF EpochInit, EpochInv, SimulatesTheChain, NoSim, NoRun

\* The constructor: what it derives is past every gate, and at the live anchor
\* unless it warns that this is a preview.
LEMMA Made ==
  ASSUME EpochInv, NEW coin \in SimCoins \ {NoCoin}, NEW network \in SimNetworks,
         NEW rules \in {"live", "scheduled"}, NEW now \in Clocks, NEW height \in Heights,
         NEW time \in Times, initializeBlockContext(coin, network, rules, now, height, time)
  PROVE  EpochInv'
<1> DEFINE live == liveBlockTime(now, network)
           scheduled == scheduledBlockTime(network)
           tall == defaultBlockHeight(coin, network)
           h == Pinned(height, tall)
           t == Pinned(time, IF rules = "scheduled" THEN scheduled ELSE live)
           preview == rules = "scheduled" /\ t = scheduled /\ gatesAheadOf(live, network) # {}
<1>1. live \in Nat /\ scheduled \in Nat /\ scheduled >= live /\ live \in Anchors(network)
  BY LiveIs, ScheduledIs
<1>2. gatesAheadOf(live, network) = {} => scheduled = live
  BY NothingAhead
<1>3. tall \in Nat
  BY AtTheDefault
<1>4. sim = NoSim /\ lastRun' = lastRun
      /\ sim' = [made |-> TRUE, coin |-> coin, network |-> network, rules |-> rules, now |-> now, live |-> live]
      /\ simBlock' = [height |-> h, time |-> t]
      /\ derived' = (height = Unpinned /\ time = Unpinned)
      /\ warned' = IF preview THEN {"preview"} ELSE {}
  BY DEF initializeBlockContext
<1>5. height # Unpinned => height \in Nat
  BY EpochAssumption DEF Heights
<1>6. time # Unpinned => time \in Nat
  BY EpochAssumption DEF Times
<1>7. h \in Nat /\ t \in Nat
  BY <1>1, <1>3, <1>5, <1>6 DEF Pinned
<1>8. ASSUME height = Unpinned, time = Unpinned
      PROVE  /\ h = tall /\ t >= live
             /\ ~preview => t = live
  BY <1>1, <1>2, <1>8 DEF Pinned
<1>9. ~lastRun.done
  BY <1>4 DEF EpochInv, NoSim
<1> HIDE DEF live, scheduled, tall, h, t, preview
<1>10. simBlock'.height \in Nat /\ simBlock'.time \in Nat
  BY <1>4, <1>7
<1>11. lastRun'.done => sim'.made
  BY <1>4, <1>9
<1>12. SimOk(sim')
  BY <1>4 DEF SimOk, live
<1>13. derived' => DerivedOk(sim', simBlock', warned')
  BY <1>4, <1>8 DEF DerivedOk, tall
<1>14. SimulatesTheChain'
  BY <1>4, <1>9 DEF SimulatesTheChain
<1> QED
  BY <1>10, <1>11, <1>12, <1>13, <1>14 DEF EpochInv

\* A new block leaves the last run alone.
LEMMA Moved ==
  ASSUME EpochInv, UNCHANGED <<sim, warned, lastRun>>, simBlock'.height \in Nat, simBlock'.time \in Nat,
         derived' => derived /\ simBlock' = simBlock
  PROVE  EpochInv'
<1>1. SimulatesTheChain'
  BY DEF EpochInv, SimulatesTheChain
<1>2. sim' = sim /\ warned' = warned /\ lastRun' = lastRun
  OBVIOUS
<1>3. sim.made /\ derived' => DerivedOk(sim, simBlock', warned)
  BY DEF EpochInv
<1> QED
  BY <1>1, <1>2, <1>3 DEF EpochInv

\* A run: no warning means every armed gate is on and the block is not before the
\* live anchor, past which no rule switches until the host clock.
LEMMA Ran ==
  ASSUME EpochInv, NEW coin \in SimCoins, DeployAndCall(coin)
  PROVE  EpochInv'
<1> DEFINE b == BlockAt(sim.network, coin, simBlock.height, simBlock.time)
           chain == BlockAt(sim.network, coin, Tip, sim.now)
           atLive == BlockAt(sim.network, coin, Tip, sim.live)
           armed == Armed(coin, sim.network)
           warns == warnIfPreGate \cup warnIfPreHeightGate(coin)
<1>1. sim.made /\ SimOk(sim) /\ simBlock.height \in Nat /\ simBlock.time \in Nat
  BY DEF DeployAndCall, Step, EpochInv
<1>2. /\ sim.live \in Nat /\ sim.live <= sim.now /\ sim.now \in Nat /\ sim.now < NEVER
      /\ \A a \in Anchors(sim.network) : a <= sim.now => a <= sim.live
  BY <1>1, LiveIs DEF SimOk
<1>3. Level(atLive, chain)
  BY <1>2 DEF Level, Grows, BlockAt
<1>4. TimeRules(atLive) = TimeRules(chain)
  BY <1>3, RulesGrow DEF Level
<1>5. ASSUME warnIfPreGate = {} PROVE TimeRules(chain) \subseteq TimeRules(b)
  <2>1. simBlock.time >= sim.live
    BY <1>5 DEF warnIfPreGate
  <2>2. Grows(atLive, b)
    BY <1>1, <1>2, <2>1 DEF Grows, BlockAt
  <2> QED
    BY <1>4, <2>2, RulesGrow
<1>6. armed = {g \in DOMAIN HEIGHT_MAPS : heightGateNeed(g, coin, sim.network) # Unarmed}
  BY DEF Armed
<1>7. warnIfPreHeightGate(coin) =
        IF armed # {} /\ \A g \in armed : HEIGHT_GATES(b)[g] THEN {} ELSE {"preHeight"}
  BY <1>6 DEF warnIfPreHeightGate
<1>8. HeightRules(chain) = armed
  BY AtTheTip
<1>9. ASSUME warnIfPreHeightGate(coin) = {} PROVE HeightRules(b) = HeightRules(chain)
  BY <1>1, <1>7, <1>8, <1>9, RulesOfHeight
<1>10. ASSUME derived, "preview" \notin warned PROVE TimeRules(b) = TimeRules(chain)
  <2>1. simBlock.time = sim.live
    BY <1>1, <1>10 DEF EpochInv, DerivedOk
  <2>2. Grows(atLive, b) /\ Grows(b, atLive)
    BY <1>1, <1>2, <2>1 DEF Grows, BlockAt
  <2> QED
    BY <1>4, <2>2, RulesGrow
<1>11. ASSUME derived, coin = sim.coin, sim.network \in {"mainnet", "testnet", "regtest"}
       PROVE  warns = {}
  <2>1. simBlock.height = defaultBlockHeight(coin, sim.network) /\ simBlock.time >= sim.live
    BY <1>1, <1>11 DEF EpochInv, DerivedOk
  <2>2. \A g \in armed : HEIGHT_GATES(b)[g]
    BY <2>1, AtTheDefault
  <2>3. coin \in Tabled
    BY <1>1, <1>11, CoinsAreTabled DEF SimOk
  <2>4. armed # {}
    BY <1>11, <2>3, SomethingArmed
  <2> QED
    BY <1>7, <2>1, <2>2, <2>4 DEF warnIfPreGate
<1>12. ASSUME coin = sim.coin PROVE [b EXCEPT !.coin = sim.coin] = b
  BY <1>12 DEF BlockAt
<1>13. PICK r : r = [done |-> TRUE, block |-> b, derived |-> derived, warns |-> warns,
                     deploy |-> deployFlags([b EXCEPT !.coin = sim.coin]),
                     exec |-> IF isExecLintActive(b) THEN execFlags(b) ELSE {}]
  OBVIOUS
<1>14. /\ r.done /\ r.block = b /\ r.derived = derived /\ r.warns = warns
       /\ r.deploy = deployFlags([b EXCEPT !.coin = sim.coin])
       /\ r.exec = IF isExecLintActive(b) THEN execFlags(b) ELSE {}
  BY <1>13
<1>15. b.coin = coin
  BY DEF BlockAt
<1>16. ASSUME coin = sim.coin, r.exec # {} PROVE r.exec = r.deploy \cup {"nestingDepth"}
  BY <1>12, <1>14, <1>16, LintsAgree
<1>17. /\ lastRun' = r /\ warned' = warned \cup warns
       /\ sim' = sim /\ simBlock' = simBlock /\ derived' = derived
  BY <1>13 DEF DeployAndCall
<1>18. warnIfPreGate \subseteq {"preGate"} /\ warnIfPreHeightGate(coin) \subseteq {"preHeight"}
  BY <1>7 DEF warnIfPreGate
<1>19. chain = BlockAt(sim.network, r.block.coin, Tip, sim.now)
  BY <1>14, <1>15
<1>20. warns = warnIfPreGate \cup warnIfPreHeightGate(coin)
  OBVIOUS
<1> HIDE DEF b, chain, atLive, armed, warns
<1>21. ASSUME warned' \cap {"preGate", "preHeight"} = {}
       PROVE  TimeRules(chain) \subseteq TimeRules(b) /\ HeightRules(b) = HeightRules(chain)
  <2>1. warnIfPreGate = {} /\ warnIfPreHeightGate(coin) = {}
    BY <1>17, <1>18, <1>20, <1>21
  <2> QED
    BY <1>5, <1>9, <2>1
<1>22. "preview" \notin warned' => "preview" \notin warned
  BY <1>17
<1>23. /\ r.derived /\ "preview" \notin warned' => TimeRules(b) = TimeRules(chain)
       /\ r.derived /\ r.block.coin = sim.coin /\ sim.network \in {"mainnet", "testnet", "regtest"} => r.warns = {}
       /\ r.block.coin = sim.coin /\ r.exec # {} => r.exec = r.deploy \cup {"nestingDepth"}
  BY <1>10, <1>11, <1>14, <1>15, <1>16, <1>22
<1>24. SimulatesTheChain'
  BY <1>14, <1>17, <1>19, <1>21, <1>23 DEF SimulatesTheChain
<1>25. derived => DerivedOk(sim, simBlock, warned')
  BY <1>1, <1>22 DEF EpochInv, DerivedOk
<1> QED
  BY <1>1, <1>17, <1>24, <1>25 DEF EpochInv

\* SimulatesTheChain, for any coins of the tables, networks, pinned blocks, clocks
\* past the first flag day and numbers of steps: a simulator that has not warned
\* runs the chain's rules, the default block no others and draws no warning, and the
\* lints of a deploy and of an execution agree (simulator.js, block_time_gates.js,
\* gate_warnings.js).
THEOREM SimulatesTheChainHolds == EpochSpec => []SimulatesTheChain
<1>1. EpochInv /\ [EpochNext]_epochVars => EpochInv'
  <2> SUFFICES ASSUME EpochInv, [EpochNext]_epochVars PROVE EpochInv'
    OBVIOUS
  <2>1. ASSUME NEW height \in Heights, NEW time \in Times, SetBlock(height, time) PROVE EpochInv'
    <3>1. simBlock.height \in Nat /\ simBlock.time \in Nat
      BY DEF EpochInv
    <3>2. height # Unpinned => height \in Nat
      BY EpochAssumption DEF Heights
    <3>3. time # Unpinned => time \in Nat
      BY EpochAssumption DEF Times
    <3>4. Pinned(height, simBlock.height) \in Nat /\ Pinned(time, simBlock.time) \in Nat
      BY <3>1, <3>2, <3>3 DEF Pinned
    <3>5. simBlock'.height \in Nat /\ simBlock'.time \in Nat
      BY <2>1, <3>4 DEF SetBlock
    <3> QED
      BY <2>1, <3>5, Moved DEF SetBlock
  <2>2. ASSUME AdvanceBlock PROVE EpochInv'
    <3>1. simBlock.height + 1 \in Nat /\ simBlock.time + 600 \in Nat
      BY DEF EpochInv
    <3>2. simBlock'.height \in Nat /\ simBlock'.time \in Nat
      BY <2>2, <3>1 DEF AdvanceBlock
    <3> QED
      BY <2>2, <3>2, Moved DEF AdvanceBlock
  <2>3. ASSUME UNCHANGED epochVars PROVE EpochInv'
    BY <2>3, Moved DEF epochVars, EpochInv
  <2> QED
    BY <2>1, <2>2, <2>3, Made, Ran DEF EpochNext
<1>2. EpochInv => SimulatesTheChain
  BY DEF EpochInv
<1> QED
  BY <1>1, <1>2, EpochStart, PTL DEF EpochSpec
-------------------------------------------------------------------------------
(***************************************************************************)
(* What a run reads of the seeds.                                          *)
(***************************************************************************)
\* The last price of a pair is one of its rounds; a scoped response names its scope.
Rounds == \A pair \in DOMAIN oracle.prices : /\ pair \in DOMAIN oracle.rounds
                                             /\ oracle.prices[pair] \in oracle.rounds[pair]
Scoped == \A index \in DOMAIN attestByIndex :
            /\ index # Shared
            /\ \A request \in DOMAIN attestByIndex[index] : attestByIndex[index][request] # Shared

\* The invariant of the seeds.
SeedsInv ==
    /\ DOMAIN oracle = {"prices", "rounds", "roundFloor"}
    /\ oracle.roundFloor \in Nat /\ Rounds /\ Scoped /\ IsFiniteSet(deployedAt)
    /\ ScopeIsTold

\* What With adds to a map.
LEMMA WithIs ==
  ASSUME NEW map, NEW key, NEW value
  PROVE  /\ DOMAIN With(map, key, value) = DOMAIN map \cup {key}
         /\ With(map, key, value)[key] = value
         /\ \A k \in DOMAIN map : k # key => With(map, key, value)[k] = map[k]
BY DEF With

\* Before the first run there is none to judge.
LEMMA NoneMade == ~NoCall.made
BY DEF NoCall

\* A lookup is a value, nothing, or a member of Object.prototype where the rule is not armed.
LEMMA LookupIs ==
  ASSUME NEW map, NEW key, isAccessorOwnKeyActive
  PROVE  lookup(map, key).is # "builtin"
BY DEF lookup, Value, Absent

\* getPriceAtRound: nothing but a round at or above the floor reads as one that
\* never was, and the last price of a pair is one of its rounds.
LEMMA RoundsAnswer ==
  ASSUME Rounds, oracle.roundFloor \in Nat
  PROVE  NullsMeanNever
<1>1. ASSUME NEW pair, NEW round \in Nat, getPriceAtRound(pair, round) = Absent
      PROVE  round >= oracle.roundFloor
  BY <1>1 DEF getPriceAtRound, Absent, OutsideWindow, Value
<1>2. ASSUME NEW pair, getPrice(pair).is = "value"
      PROVE  getPriceAtRound(pair, getPrice(pair).value).is = "value"
  <2>1. pair \in DOMAIN oracle.prices /\ getPrice(pair) = Value(oracle.prices[pair])
    BY <1>2 DEF getPrice, lookup, Builtin, Absent
  <2>2. getPrice(pair).value = oracle.prices[pair]
    BY <2>1 DEF Value
  <2>3. pair \in DOMAIN oracle.rounds /\ oracle.prices[pair] \in oracle.rounds[pair]
    BY <2>1 DEF Rounds
  <2> QED
    BY <2>2, <2>3 DEF getPriceAtRound, Value
<1> QED
  BY <1>1, <1>2, SeedsAssumption DEF NullsMeanNever, NullMeansNever

\* No accessor answers with an inherited member once the rule is armed.
LEMMA KeysAreOwn == OwnKeysOnly
<1> SUFFICES ASSUME isAccessorOwnKeyActive, NEW index, NEW runMode
             PROVE  "builtin" \notin Answers(index, runMode)
  BY DEF OwnKeysOnly
<1>1. \A map, key : lookup(map, key).is # "builtin"
  BY LookupIs
<1>2. Absent.is # "builtin" /\ Value(0).is # "builtin"
  BY DEF Absent, Value
<1>3. \A key : getPrice(key).is # "builtin" /\ getPollResult(key).is # "builtin"
               /\ getCallResult(key).is # "builtin"
  BY <1>1 DEF getPrice, getPollResult, getCallResult
<1>4. \A data, key : getResponse(data, key).is # "builtin"
  BY <1>1, <1>2 DEF getResponse
<1>5. \A data, key : getTotalStaked(data, key).is # "builtin"
  BY <1>1, <1>2 DEF getTotalStaked
<1> QED
  BY <1>3, <1>4, <1>5 DEF Answers

\* A run that reads past the chain's snapshot warns.
LEMMA RunTells ==
  ASSUME SeedsInv, NEW index \in SimIndexes, NEW runMode \in {"call", "guard", "init"},
         NEW caller \in Callers
  PROVE  BeyondTheChain(index, runMode, caller) \subseteq
            (IF BalanceOutOfScope(caller, AddressOf[index]) THEN {"balance"} ELSE {})
              \cup (IF StakeOutOfScope(index, runMode) THEN {"stake"} ELSE {})
<1>1. ASSUME NEW a \in (Callers \cup Range(AddressOf)) \ {caller, AddressOf[index]}, NEW tick,
             getBalance(a, tick) # Absent
      PROVE  BalanceOutOfScope(caller, AddressOf[index])
  BY <1>1 DEF getBalance, BalanceOutOfScope
<1>2. ASSUME NEW request, getResponse(AttestDataOf(index, runMode), request) = Value(Shared)
      PROVE  runMode = "call" /\ index \notin DOMAIN attestByIndex /\ attestData # EmptyMap
  <2> DEFINE data == AttestDataOf(index, runMode)
  <2>1. data # NoData /\ lookup(data, request) = Value(Shared)
    BY <1>2 DEF getResponse, Absent, Value
  <2>2. request \in DOMAIN data /\ Value(data[request]) = Value(Shared)
    BY <2>1 DEF lookup, Absent, Builtin, Value
  <2>3. data[request] = Shared
    BY <2>2 DEF Value
  <2>4. runMode = "call"
    BY <2>1 DEF AttestDataOf
  <2>5. index \notin DOMAIN attestByIndex
    BY <2>2, <2>3, <2>4 DEF SeedsInv, Scoped, AttestDataOf
  <2>6. data = attestData
    BY <2>4, <2>5 DEF AttestDataOf
  <2>7. attestData # EmptyMap
    BY <2>2, <2>6 DEF EmptyMap
  <2> QED
    BY <2>4, <2>5, <2>7
<1>3. ASSUME index \notin DOMAIN stakeByIndex, NEW pubkey, NEW tick,
             getStake(StakeDataOf(index, runMode), pubkey, tick) # Value(0)
      PROVE  runMode # "init" /\ stakeData.stakes # EmptyMap
  <2>1. StakeDataOf(index, runMode) # NoData
        /\ <<pubkey, tick>> \in DOMAIN StakeDataOf(index, runMode).stakes
    BY <1>3 DEF getStake
  <2>2. runMode # "init" /\ StakeDataOf(index, runMode) = stakeData
    BY <1>3, <2>1 DEF StakeDataOf
  <2> QED
    BY <2>1, <2>2 DEF EmptyMap
<1>4. Cardinality(deployedAt) > 1 => Cardinality(deployedAt) >= 2
  <2>1. Cardinality(deployedAt) \in Nat
    BY FS_CardinalityType DEF SeedsInv
  <2> QED
    BY <2>1
<1> QED
  BY <1>1, <1>2, <1>3, <1>4 DEF BeyondTheChain, StakeOutOfScope

\* An empty world.
LEMMA SeedsStart == SeedsInit => SeedsInv
<1> SUFFICES ASSUME SeedsInit PROVE SeedsInv
  OBVIOUS
<1>1. DOMAIN oracle = {"prices", "rounds", "roundFloor"} /\ oracle.roundFloor = 0 /\ oracle.prices = EmptyMap /\ attestByIndex = EmptyMap
      /\ deployedAt = {} /\ lastCall = NoCall
  BY DEF SeedsInit
<1>2. DOMAIN EmptyMap = {}
  BY DEF EmptyMap
<1> QED
  BY <1>1, <1>2, FS_EmptySet, NoneMade DEF SeedsInv, Rounds, Scoped, ScopeIsTold

\* A seed of anything but prices and responses.
LEMMA OtherSeeds ==
  ASSUME SeedsInv, UNCHANGED <<oracle, attestByIndex, deployedAt>>, lastCall' = NoCall
  PROVE  SeedsInv'
<1>1. ScopeIsTold'
  BY NoneMade DEF ScopeIsTold
<1>2. Rounds' /\ Scoped'
  BY DEF SeedsInv, Rounds, Scoped
<1> QED
  BY <1>1, <1>2 DEF SeedsInv

\* setPrice adds the round its price is of.
LEMMA PriceSeeds ==
  ASSUME SeedsInv, NEW pair \in Pairs, NEW round \in RoundNumbers, setPrice(pair, round)
  PROVE  SeedsInv'
<1> DEFINE prices == With(oracle.prices, pair, round)
           kept == IF pair \in DOMAIN oracle.rounds THEN oracle.rounds[pair] ELSE {}
           rounds == With(oracle.rounds, pair, kept \cup {round})
<1>1. PICK new : new = [oracle EXCEPT !.prices = prices, !.rounds = rounds]
  OBVIOUS
<1>2. oracle' = new
  BY <1>1 DEF setPrice
<1>3. /\ DOMAIN new = {"prices", "rounds", "roundFloor"} /\ new.roundFloor = oracle.roundFloor
      /\ new.prices = prices /\ new.rounds = rounds
  BY <1>1 DEF SeedsInv
<1>4. /\ DOMAIN prices = DOMAIN oracle.prices \cup {pair} /\ prices[pair] = round
      /\ \A p \in DOMAIN oracle.prices : p # pair => prices[p] = oracle.prices[p]
  BY DEF With
<1>5. /\ DOMAIN rounds = DOMAIN oracle.rounds \cup {pair} /\ rounds[pair] = kept \cup {round}
      /\ \A p \in DOMAIN oracle.rounds : p # pair => rounds[p] = oracle.rounds[p]
  BY DEF With
<1> HIDE DEF prices, rounds, kept
<1>6. \A p \in DOMAIN oracle.prices : p \in DOMAIN oracle.rounds /\ oracle.prices[p] \in oracle.rounds[p]
  BY DEF SeedsInv, Rounds
<1>7. ASSUME NEW p \in DOMAIN prices
      PROVE  p \in DOMAIN rounds /\ prices[p] \in rounds[p]
  BY <1>4, <1>5, <1>6, <1>7
<1>8. \A p \in DOMAIN new.prices : p \in DOMAIN new.rounds /\ new.prices[p] \in new.rounds[p]
  BY <1>3, <1>7
<1>9. Rounds'
  BY <1>2, <1>8 DEF Rounds
<1>10. Scoped' /\ ScopeIsTold' /\ deployedAt' = deployedAt
  BY NoneMade DEF setPrice, Seed, SeedsInv, Scoped, ScopeIsTold
<1> QED
  BY <1>2, <1>3, <1>9, <1>10 DEF SeedsInv

\* setOracleRoundFloor sets a number.
LEMMA FloorSeeds ==
  ASSUME SeedsInv, NEW floor \in RoundNumbers, setOracleRoundFloor(floor)
  PROVE  SeedsInv'
<1>1. PICK new : new = [oracle EXCEPT !.roundFloor = floor]
  OBVIOUS
<1>2. oracle' = new
  BY <1>1 DEF setOracleRoundFloor
<1>3. /\ DOMAIN new = {"prices", "rounds", "roundFloor"} /\ new.roundFloor = floor
      /\ new.prices = oracle.prices /\ new.rounds = oracle.rounds
  BY <1>1 DEF SeedsInv
<1>4. floor \in Nat
  BY SeedsAssumption
<1>5. Rounds'
  BY <1>2, <1>3 DEF SeedsInv, Rounds
<1>6. Scoped' /\ ScopeIsTold' /\ deployedAt' = deployedAt
  BY NoneMade DEF setOracleRoundFloor, Seed, SeedsInv, Scoped, ScopeIsTold
<1> QED
  BY <1>2, <1>3, <1>4, <1>5, <1>6 DEF SeedsInv

\* setAttestationResponse writes its own scope's bucket, and its own scope.
LEMMA ResponseSeeds ==
  ASSUME SeedsInv, NEW request \in Requests, NEW index \in Scopes,
         setAttestationResponse(request, index)
  PROVE  SeedsInv'
<1> DEFINE bucket == With(attestationBucket(index), request, index)
<1>1. oracle' = oracle /\ deployedAt' = deployedAt /\ lastCall' = NoCall
      /\ attestByIndex' = IF index = Shared THEN attestByIndex ELSE With(attestByIndex, index, bucket)
  BY DEF setAttestationResponse, Seed
<1>2. CASE index = Shared
  BY <1>1, <1>2, OtherSeeds DEF setAttestationResponse, Seed
<1>3. CASE index # Shared
  <2>1. PICK new : new = With(attestByIndex, index, bucket)
    OBVIOUS
  <2>2. attestByIndex' = new
    BY <1>1, <1>3, <2>1
  <2>3. /\ DOMAIN new = DOMAIN attestByIndex \cup {index} /\ new[index] = bucket
        /\ \A i \in DOMAIN attestByIndex : i # index => new[i] = attestByIndex[i]
    BY <2>1, WithIs
  <2>4. DOMAIN bucket = DOMAIN attestationBucket(index) \cup {request} /\ bucket[request] = index
        /\ \A r \in DOMAIN attestationBucket(index) :
              r # request => bucket[r] = attestationBucket(index)[r]
    BY DEF With
  <2>5. \A r \in DOMAIN attestationBucket(index) : attestationBucket(index)[r] # Shared
    BY <1>3 DEF attestationBucket, SeedsInv, Scoped, EmptyMap
  <2>6. \A r \in DOMAIN bucket : bucket[r] # Shared
    BY <1>3, <2>4, <2>5
  <2> HIDE DEF bucket
  <2>7. \A i \in DOMAIN attestByIndex :
          i # Shared /\ \A r \in DOMAIN attestByIndex[i] : attestByIndex[i][r] # Shared
    BY DEF SeedsInv, Scoped
  <2>8. ASSUME NEW i \in DOMAIN new
        PROVE  i # Shared /\ \A r \in DOMAIN new[i] : new[i][r] # Shared
    BY <1>3, <2>3, <2>6, <2>7
  <2>9. Scoped'
    BY <2>2, <2>8 DEF Scoped
  <2>10. Rounds' /\ ScopeIsTold'
    BY <1>1, NoneMade DEF SeedsInv, Rounds, ScopeIsTold
  <2> QED
    BY <1>1, <2>9, <2>10 DEF SeedsInv
<1> QED
  BY <1>2, <1>3

\* A run that could read past the snapshot warns at the same moment.
LEMMA RunReads ==
  ASSUME SeedsInv, NEW index \in SimIndexes, NEW runMode \in {"call", "guard", "init"},
         NEW caller \in Callers, Run(index, runMode, caller)
  PROVE  SeedsInv'
<1> DEFINE told == (IF BalanceOutOfScope(caller, AddressOf[index]) THEN {"balance"} ELSE {})
                     \cup (IF StakeOutOfScope(index, runMode) THEN {"stake"} ELSE {})
<1>1. BeyondTheChain(index, runMode, caller) \subseteq told
  BY RunTells
<1>2. PICK c : c = [made |-> TRUE, index |-> index, mode |-> runMode, caller |-> caller]
  OBVIOUS
<1>3. c.index = index /\ c.mode = runMode /\ c.caller = caller
  BY <1>2
<1>4. lastCall' = c /\ told \subseteq scopeWarned'
  BY <1>2 DEF Run
<1>5. UNCHANGED <<readNetwork, balances, oracle, stakeData, stakeByIndex, attestData, attestByIndex, deployedAt>>
  BY DEF Run
<1>6. BeyondTheChain(index, runMode, caller)' = BeyondTheChain(index, runMode, caller)
  BY <1>5 DEF BeyondTheChain, getResponse, AttestDataOf, lookup, isAccessorOwnKeyActive, getStake,
     StakeDataOf, getBalance
<1>7. ScopeIsTold'
  BY <1>1, <1>3, <1>4, <1>6 DEF ScopeIsTold
<1>8. Rounds' /\ Scoped'
  BY <1>5 DEF SeedsInv, Rounds, Scoped
<1> QED
  BY <1>5, <1>7, <1>8 DEF SeedsInv

\* A second contract changes what is in scope, and no run has read since.
LEMMA Deployed ==
  ASSUME SeedsInv, NEW index \in SimIndexes, DeployAt(index)
  PROVE  SeedsInv'
<1>1. oracle' = oracle /\ attestByIndex' = attestByIndex /\ lastCall' = NoCall
      /\ deployedAt' = deployedAt \cup {index}
  BY DEF DeployAt
<1>2. IsFiniteSet(deployedAt')
  BY <1>1, FS_AddElement DEF SeedsInv
<1>3. Rounds' /\ Scoped' /\ ScopeIsTold'
  BY <1>1, NoneMade DEF SeedsInv, Rounds, Scoped, ScopeIsTold
<1> QED
  BY <1>1, <1>2, <1>3 DEF SeedsInv

\* The parts of ReadsAreSeeded that are about several setters, for any keys, rounds,
\* callers, contracts and numbers of seeds: a null hides no evicted round, no key
\* of an accessor under the own-key rule reaches an inherited member where that rule is
\* armed, and an author whose contract could read what the chain would not show it
\* was told
\* (readonly-accessors.js, world_state_setters.js, gate_warnings.js).
THEOREM SeedReads == SeedsSpec => [](NullsMeanNever /\ OwnKeysOnly /\ ScopeIsTold)
<1>1. SeedsInv /\ [SeedsNext]_seedVars => SeedsInv'
  <2> SUFFICES ASSUME SeedsInv, [SeedsNext]_seedVars PROVE SeedsInv'
    OBVIOUS
  <2>1. ASSUME NEW address, NEW tick, setBalance(address, tick) PROVE SeedsInv'
    BY <2>1, OtherSeeds DEF setBalance, Seed
  <2>2. ASSUME NEW poll, setPollResult(poll) PROVE SeedsInv'
    BY <2>2, OtherSeeds DEF setPollResult, Seed
  <2>3. ASSUME NEW callId, setCallResult(callId) PROVE SeedsInv'
    BY <2>3, OtherSeeds DEF setCallResult, Seed
  <2>4. ASSUME NEW pubkey, NEW tick, NEW amount, NEW index, setStake(pubkey, tick, amount, index)
        PROVE  SeedsInv'
    <3>1. UNCHANGED <<oracle, attestByIndex, deployedAt>> /\ lastCall' = NoCall
      BY <2>4 DEF setStake, Seed
    <3> QED
      BY <3>1, OtherSeeds
  <2>5. ASSUME UNCHANGED seedVars PROVE SeedsInv'
    <3>1. UNCHANGED <<readNetwork, balances, oracle, stakeData, stakeByIndex, attestData, attestByIndex,
                      deployedAt, scopeWarned, lastCall>>
      BY <2>5 DEF seedVars
    <3>2. ScopeIsTold'
      BY <3>1 DEF SeedsInv, ScopeIsTold, BeyondTheChain, getResponse, AttestDataOf, lookup,
         isAccessorOwnKeyActive, getStake, StakeDataOf, getBalance
    <3>3. Rounds' /\ Scoped'
      BY <3>1 DEF SeedsInv, Rounds, Scoped
    <3> QED
      BY <3>1, <3>2, <3>3 DEF SeedsInv
  <2> QED
    BY <2>1, <2>2, <2>3, <2>4, <2>5, PriceSeeds, FloorSeeds, ResponseSeeds, Deployed, RunReads DEF SeedsNext
<1>2. SeedsInv => NullsMeanNever /\ OwnKeysOnly /\ ScopeIsTold
  BY RoundsAnswer, KeysAreOwn DEF SeedsInv
<1> QED
  BY <1>1, <1>2, SeedsStart, PTL DEF SeedsSpec
===============================================================================
