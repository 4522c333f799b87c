------------------------------ MODULE HostProofs ------------------------------
(***************************************************************************)
(* What the host counts, around the isolates and inside of them: the live  *)
(* executors, for every set of VMs and caps; the ids of the emissions that *)
(* other chains and attestors answer to, for call trees of every shape;    *)
(* what the natives behind the harness's wrappers walk and build, for      *)
(* every size, budget and number of calls; and what a contract runs in,    *)
(* for every block and whatever the contract writes.                       *)
(***************************************************************************)
EXTENDS VmEntry, CallTree, BuiltinMeters, Fleet, FiniteSetTheorems, SequenceTheorems, TLAPS

(***************************************************************************)
(* Executor slots.  The count can only be right if every slot is given     *)
(* back once, so the invariant ties the closure's state (slots) to the two *)
(* things a host can see: what was built and what was shut down.           *)
(***************************************************************************)
Held == {v \in Vms : vms[v] = "subprocess"} \ shut

EntryTypeOK ==
    /\ liveExecutors \in Nat
    /\ vms \in [Vms -> {"none", "inProcess", "subprocess", "failed"}]
    /\ slots \in [Vms -> {"none", "held", "released"}]
    /\ shut \subseteq Vms

\* A slot is held by exactly the executors that are up, and only a VM that was
\* built has been shut down.
SlotsFollowVms ==
    /\ \A v \in Vms : slots[v] = "held" <=> v \in Held
    /\ \A v \in shut : vms[v] \in {"inProcess", "subprocess"}

EntryInv == EntryTypeOK /\ SlotsFollowVms /\ IsFiniteSet(Held) /\ SlotsExact

\* Giving a slot back lowers the count once: the closure of reserveExecutorSlot
\* looks at its own flag, and the flag says whether the executor is up.
LEMMA ShutdownStep ==
  ASSUME EntryInv, NEW v \in Vms, Shutdown(v)
  PROVE  EntryInv'
<1> USE DEF EntryInv
<1>0. /\ liveExecutors = Cardinality(Held) /\ Cardinality(Held) \in Nat
      /\ (v \in Held => Cardinality(Held) # 0)
  BY FS_CardinalityType, FS_EmptySet DEF SlotsExact, Held
<1>1. Held' = Held \ {v}
  BY DEF Held, Shutdown
<1>2. IsFiniteSet(Held \ {v})
      /\ Cardinality(Held \ {v}) = IF v \in Held THEN Cardinality(Held) - 1 ELSE Cardinality(Held)
  BY FS_RemoveElement
<1>3. liveExecutors' = IF v \in Held THEN liveExecutors - 1 ELSE liveExecutors
  <2>1. CASE vms[v] = "subprocess"
    BY <2>1, <1>0 DEF Shutdown, releaseSlot, SlotsFollowVms
  <2>2. CASE vms[v] = "inProcess"
    BY <2>2 DEF Shutdown, Held
  <2> QED
    BY <2>1, <2>2 DEF Shutdown
<1>4. EntryTypeOK'
  BY <1>0, <1>3 DEF EntryTypeOK, Shutdown, releaseSlot
<1>5. SlotsFollowVms'
  BY <1>1 DEF SlotsFollowVms, EntryTypeOK, Shutdown, releaseSlot, Held
<1>6. SlotsExact'
  BY <1>0, <1>1, <1>2, <1>3 DEF SlotsExact, Held
<1> QED
  BY <1>1, <1>2, <1>4, <1>5, <1>6

\* A constructor that ends without an executor holds no slot: it reserved none
\* (an unknown mode, the cap, the in-process mode) or its catch gave it back.
LEMMA NoExecutorStep ==
  ASSUME EntryInv, NEW v \in Vms, vms[v] = "none", liveExecutors' = liveExecutors, shut' = shut,
         \E mode \in {"inProcess", "failed"} : vms' = [vms EXCEPT ![v] = mode],
         slots' = slots \/ slots' = [slots EXCEPT ![v] = "released"]
  PROVE  EntryInv'
<1> USE DEF EntryInv
<1>1. Held' = Held
  BY DEF Held, EntryTypeOK
<1>2. EntryTypeOK' /\ SlotsFollowVms'
  BY <1>1 DEF EntryTypeOK, SlotsFollowVms, Held
<1> QED
  BY <1>1, <1>2 DEF SlotsExact, Held

\* An executor that is built takes one slot.
LEMMA ExecutorStep ==
  ASSUME EntryInv, NEW v \in Vms, vms[v] = "none", liveExecutors' = liveExecutors + 1,
         vms' = [vms EXCEPT ![v] = "subprocess"], slots' = [slots EXCEPT ![v] = "held"],
         shut' = shut
  PROVE  EntryInv'
<1> USE DEF EntryInv
<1>1. v \notin Held /\ v \notin shut
  BY DEF Held, SlotsFollowVms
<1>2. Held' = Held \cup {v}
  BY <1>1 DEF Held, EntryTypeOK
<1>3. EntryTypeOK' /\ SlotsFollowVms'
  BY <1>1, <1>2 DEF EntryTypeOK, SlotsFollowVms, Held
<1>4. IsFiniteSet(Held') /\ Cardinality(Held') = Cardinality(Held) + 1
  BY <1>1, <1>2, FS_AddElement
<1> QED
  BY <1>3, <1>4 DEF SlotsExact, Held

\* Every step of the constructor and of shutdown() preserves the invariant.
LEMMA EntryStep == EntryInv /\ [EntryNext]_entryVars => EntryInv'
<1> SUFFICES ASSUME EntryInv, [EntryNext]_entryVars PROVE EntryInv'
  OBVIOUS
<1>1. ASSUME NEW v \in Vms, ConstructBadMode(v) PROVE EntryInv'
  BY <1>1, NoExecutorStep DEF ConstructBadMode
<1>2. ASSUME NEW v \in Vms, ConstructInProcess(v) PROVE EntryInv'
  BY <1>2, NoExecutorStep DEF ConstructInProcess
<1>3. ASSUME NEW v \in Vms, NEW c \in Caps, ConstructSubprocess(v, c) PROVE EntryInv'
  BY <1>3, NoExecutorStep, ExecutorStep DEF ConstructSubprocess
<1>4. ASSUME NEW v \in Vms, NEW c \in Caps, ConstructThrows(v, c) PROVE EntryInv'
  BY <1>4, NoExecutorStep DEF ConstructThrows
<1>5. CASE UNCHANGED entryVars
  BY <1>5 DEF entryVars, EntryInv, EntryTypeOK, SlotsFollowVms, SlotsExact, Held
<1> QED
  BY <1>1, <1>2, <1>3, <1>4, <1>5, ShutdownStep DEF EntryNext

\* The count of live executors is the number of subprocess VMs that were built
\* and not shut down, whatever constructors failed and however often each VM is
\* shut down (reserveExecutorSlot, XChainVM.shutdown).
THEOREM SlotsNeverLeak == EntrySpec => []SlotsExact
<1>1. EntryInit => EntryInv
  <2> SUFFICES ASSUME EntryInit PROVE EntryInv
    OBVIOUS
  <2>1. Held = {}
    BY DEF Held, EntryInit
  <2> QED
    BY <2>1, FS_EmptySet DEF EntryInit, EntryInv, EntryTypeOK, SlotsFollowVms, SlotsExact, Held
<1> QED
  BY <1>1, EntryStep, PTL DEF EntrySpec, EntryInv
-------------------------------------------------------------------------------
(***************************************************************************)
(* Emission ids.  Every id that a run derives is a function of the         *)
(* emission it names, and a one-to-one one: the invariant says that no id  *)
(* was made in any other way, in the run under way, in the runs it asks    *)
(* for or in those that committed.                                         *)
(***************************************************************************)
Origins ==
    [network : Networks, chain : Chains, tx : Txs, root : Vouts \X (Positions \cup {-1}),
     path : Seq(Nat), contract : Contracts, index : Nat, target : Chains]

Discriminator(root) == IF root[2] = -1 THEN <<root[1]>> ELSE root

RequestId(o) == <<o.tx, Discriminator(o.root), o.path, o.contract, o.index>>
CallId(o) ==
    <<o.network, o.chain, o.tx, Discriminator(o.root), o.contract, o.path, o.index, o.target>>

Request(o) == [kind |-> "ATTEST", id |-> RequestId(o), origin |-> o]
Call(o) == [kind |-> "XCALL", id |-> CallId(o), origin |-> o]

Named == {Request(o) : o \in {p \in Origins : p.target = p.chain}} \cup {Call(o) : o \in Origins}

\* The runs that wait, and the run under way.
FreshRuns ==
    [live : {TRUE}, network : Networks, chain : Chains, tx : Txs, root : RootForms,
     callPath : Seq(Nat), contract : Contracts, emitted : {0}, calls : {<<>>}, ids : {{}}]
LiveRuns ==
    [live : {TRUE}, network : Networks, chain : Chains, tx : Txs, root : RootForms,
     callPath : Seq(Nat), contract : Contracts, emitted : Nat, calls : Seq(FreshRuns),
     ids : SUBSET Named]

TreeInv ==
    /\ treeRun \in {NoRun} \cup LiveRuns
    /\ nested \in Seq(FreshRuns)
    /\ ids \subseteq Named

\* Whatever form the host writes a root in, it comes down to its output and its
\* position, and the discriminator keeps both.
LEMMA RootOfForm ==
  ASSUME NEW r \in RootForms
  PROVE  /\ <<r.vout, r.pos>> \in Vouts \X (Positions \cup {-1})
         /\ normalizeRootDiscriminator(r) = Discriminator(<<r.vout, r.pos>>)
  BY PositionAssumption DEF RootForms, normalizeRootDiscriminator, Discriminator

\* The composite of a subcommand is never mistaken for another root.
LEMMA DiscriminatorInjective ==
  ASSUME NEW r \in Vouts \X (Positions \cup {-1}), NEW s \in Vouts \X (Positions \cup {-1}),
         Discriminator(r) = Discriminator(s)
  PROVE  r = s
<1>1. r = <<r[1], r[2]>> /\ s = <<s[1], s[2]>>
  OBVIOUS
<1>2. ASSUME NEW x, NEW y, NEW z PROVE <<x>> # <<y, z>>
  <2>1. Len(<<x>>) = 1 /\ Len(<<y, z>>) = 2
    OBVIOUS
  <2> QED
    BY <2>1
<1>3. r[2] = -1 <=> s[2] = -1
  BY <1>1, <1>2 DEF Discriminator
<1> QED
  BY <1>1, <1>3 DEF Discriminator

\* What a run derives for its next emission is a well-made id.
LEMMA DerivedIsNamed ==
  ASSUME NEW run \in LiveRuns, NEW target \in Chains
  PROVE  /\ [kind |-> "ATTEST", id |-> buildRequestIdPreimage(run, run.emitted),
             origin |-> Origin(run, run.emitted, run.chain)] \in Named
         /\ [kind |-> "XCALL", id |-> buildCallIdPreimage(run, run.emitted, target),
             origin |-> Origin(run, run.emitted, target)] \in Named
<1>1. /\ run.root \in RootForms /\ run.emitted \in Nat /\ run.chain \in Chains
      /\ run.network \in Networks /\ run.tx \in Txs /\ run.contract \in Contracts
      /\ run.callPath \in Seq(Nat)
  BY DEF LiveRuns
<1>2. ASSUME NEW t \in Chains PROVE Origin(run, run.emitted, t) \in Origins
  BY <1>1, RootOfForm DEF Origin, Origins
<1>3. /\ buildRequestIdPreimage(run, run.emitted) = RequestId(Origin(run, run.emitted, run.chain))
      /\ buildCallIdPreimage(run, run.emitted, target) = CallId(Origin(run, run.emitted, target))
  BY <1>1, RootOfForm DEF buildRequestIdPreimage, buildCallIdPreimage, RequestId, CallId, Origin
<1>4. Origin(run, run.emitted, run.chain).target = Origin(run, run.emitted, run.chain).chain
  BY DEF Origin
<1> QED
  BY <1>1, <1>2, <1>3, <1>4 DEF Named, Request, Call

\* Well-made ids name one emission each.
LEMMA NamedIsInjective ==
  ASSUME NEW a \in Named, NEW b \in Named
  PROVE  /\ a.origin = b.origin /\ a.kind = b.kind => a.id = b.id
         /\ a.id = b.id /\ (a.kind = "ATTEST" =>
               a.origin.network = b.origin.network /\ a.origin.chain = b.origin.chain)
            => a.origin = b.origin
<1>1. /\ a.origin \in Origins /\ b.origin \in Origins
      /\ (a.kind = "ATTEST" /\ a.id = RequestId(a.origin) /\ a.origin.target = a.origin.chain)
           \/ (a.kind = "XCALL" /\ a.id = CallId(a.origin))
      /\ (b.kind = "ATTEST" /\ b.id = RequestId(b.origin) /\ b.origin.target = b.origin.chain)
           \/ (b.kind = "XCALL" /\ b.id = CallId(b.origin))
  BY DEF Named, Request, Call
<1>2. \A o, p : RequestId(o) # CallId(p)
  <2> TAKE o, p
  <2>1. Len(RequestId(o)) = 5 /\ Len(CallId(p)) = 8
    BY DEF RequestId, CallId
  <2> QED
    BY <2>1
<1>3. \A o, p \in Origins : Discriminator(o.root) = Discriminator(p.root) => o.root = p.root
  BY DiscriminatorInjective DEF Origins
<1>4. ASSUME NEW o \in Origins, NEW p \in Origins, CallId(o) = CallId(p) PROVE o = p
  BY <1>3, <1>4 DEF CallId, Origins
<1>5. ASSUME NEW o \in Origins, NEW p \in Origins, RequestId(o) = RequestId(p),
             o.network = p.network, o.chain = p.chain, o.target = o.chain, p.target = p.chain
      PROVE  o = p
  BY <1>3, <1>5 DEF RequestId, Origins
<1>6. a.origin = b.origin /\ a.kind = b.kind => a.id = b.id
  BY <1>1
<1>7. ASSUME a.id = b.id,
             a.kind = "ATTEST" =>
               a.origin.network = b.origin.network /\ a.origin.chain = b.origin.chain
      PROVE  a.origin = b.origin
  BY <1>1, <1>2, <1>4, <1>5, <1>7
<1> QED
  BY <1>6, <1>7

\* A run that waits can be started as it is.
LEMMA FreshIsLive == ASSUME NEW r \in FreshRuns PROVE r \in LiveRuns
<1>1. r.emitted \in Nat /\ r.calls \in Seq(FreshRuns) /\ r.ids \in SUBSET Named
  <2>1. r.emitted = 0 /\ r.calls = <<>> /\ r.ids = {}
    BY DEF FreshRuns
  <2> QED
    BY <2>1
<1> QED
  BY <1>1 DEF FreshRuns, LiveRuns

\* A run that queues an emission stays a run, with one emission more.
LEMMA QueuesType ==
  ASSUME treeRun \in LiveRuns, NEW calls \in Seq(FreshRuns), NEW new \in SUBSET Named,
         Queues(calls, new)
  PROVE  treeRun' \in LiveRuns
<1>1. treeRun.calls \o calls \in Seq(FreshRuns)
  BY ConcatProperties DEF LiveRuns
<1>2. treeRun.ids \cup new \in SUBSET Named /\ treeRun.emitted + 1 \in Nat
  BY DEF LiveRuns
<1> QED
  BY <1>1, <1>2 DEF Queues, LiveRuns

\* The steps of the runs and of the host preserve the invariant.
LEMMA TreeStep == TreeInv /\ [TreeNext]_treeVars => TreeInv'
<1> SUFFICES ASSUME TreeInv, [TreeNext]_treeVars PROVE TreeInv'
  OBVIOUS
<1> USE DEF TreeInv
<1>0. Live <=> treeRun \in LiveRuns
  <2>1. ~NoRun.live
    BY DEF NoRun
  <2>2. \A r \in LiveRuns : r.live
    BY DEF LiveRuns
  <2> QED
    BY <2>1, <2>2 DEF Live
<1>e. <<>> \in Seq(FreshRuns) /\ {} \in SUBSET Named
  OBVIOUS
<1>1. ASSUME NEW n \in Networks, NEW c \in Chains, NEW tx \in Txs, NEW r \in RootForms,
             NEW k \in Contracts, StartRoot(n, c, tx, r, k)
      PROVE  TreeInv'
  BY <1>1, <1>e DEF StartRoot, NewRun, LiveRuns
<1>2. CASE EmitAction
  BY <1>0, <1>e, <1>2, QueuesType DEF EmitAction
<1>3. CASE EmitRequest
  <2>1. treeRun \in LiveRuns /\ treeRun.chain \in Chains
    BY <1>0, <1>3 DEF EmitRequest, LiveRuns
  <2>2. {[kind |-> "ATTEST", id |-> buildRequestIdPreimage(treeRun, EmissionIndex),
          origin |-> Origin(treeRun, EmissionIndex, treeRun.chain)]} \in SUBSET Named
    BY <2>1, DerivedIsNamed DEF EmissionIndex
  <2> QED
    BY <1>e, <1>3, <2>1, <2>2, QueuesType DEF EmitRequest
<1>4. ASSUME NEW k \in Contracts, EmitExecute(k) PROVE TreeInv'
  <2>1. treeRun \in LiveRuns
    BY <1>0, <1>4 DEF EmitExecute
  <2> DEFINE next == NewRun(treeRun.network, treeRun.chain, treeRun.tx, treeRun.root,
                            Append(treeRun.callPath, EmissionIndex), k)
  <2>2. Append(treeRun.callPath, EmissionIndex) \in Seq(Nat)
    BY <2>1 DEF LiveRuns, EmissionIndex
  <2>3. next \in FreshRuns
    BY <2>1, <2>2 DEF NewRun, FreshRuns, LiveRuns
  <2>4. <<next>> \in Seq(FreshRuns)
    BY <2>3
  <2> HIDE DEF next
  <2>5. treeRun' \in LiveRuns
    BY <1>e, <1>4, <2>1, <2>4, QueuesType DEF EmitExecute, next
  <2> QED
    BY <1>4, <2>5 DEF EmitExecute
<1>5. ASSUME NEW c \in Chains, EmitCrossExecute(c) PROVE TreeInv'
  <2>1. treeRun \in LiveRuns
    BY <1>0, <1>5 DEF EmitCrossExecute
  <2>2. {[kind |-> "XCALL", id |-> buildCallIdPreimage(treeRun, EmissionIndex, c),
          origin |-> Origin(treeRun, EmissionIndex, c)]} \in SUBSET Named
    BY <2>1, DerivedIsNamed DEF EmissionIndex
  <2> QED
    BY <1>e, <1>5, <2>1, <2>2, QueuesType DEF EmitCrossExecute
<1>6. CASE Commit
  <2>1. treeRun.calls \in Seq(FreshRuns) /\ treeRun.ids \in SUBSET Named
    BY <1>0, <1>6 DEF Commit, LiveRuns
  <2> QED
    BY <1>6, <2>1, ConcatProperties DEF Commit
<1>7. CASE Fail
  BY <1>7 DEF Fail
<1>8. CASE StartNested
  <2>1. Head(nested) \in FreshRuns /\ Tail(nested) \in Seq(FreshRuns)
    BY <1>8, HeadTailProperties DEF StartNested
  <2>2. Head(nested) \in LiveRuns
    BY <2>1, FreshIsLive
  <2> QED
    BY <1>8, <2>1, <2>2 DEF StartNested
<1>9. CASE UNCHANGED treeVars
  BY <1>9 DEF treeVars
<1> QED
  BY <1>1, <1>2, <1>3, <1>4, <1>5, <1>6, <1>7, <1>8, <1>9 DEF TreeNext

\* An attestation request's id names one emission of its chain and a cross-chain
\* call's one of all networks and chains, for call trees of any depth, runs of
\* any length and BATCHes of any size, in whatever form the root was written
\* (normalizeRootDiscriminator, buildRequestIdPreimage, buildCallIdPreimage).
THEOREM IdsNeverCollide == TreeSpec => []IdsNameOneEmission
<1>1. TreeInit => TreeInv
  BY DEF TreeInit, TreeInv
<1>2. TreeInv => IdsNameOneEmission
  BY NamedIsInjective DEF TreeInv, IdsNameOneEmission
<1> QED
  BY <1>1, <1>2, TreeStep, PTL DEF TreeSpec

(***************************************************************************)
(* The sparse probe.  An accessor of the harness may be seen if a call is  *)
(* left with it in place, and a later definition of the contract undone if *)
(* it is taken back twice, so the invariant says who may have it in place: *)
(* the innermost call alone, while the native reads, and that this call    *)
(* knows what lies underneath.                                             *)
(***************************************************************************)
ArrayProps == {Prop("fixed", n) : n \in Lengths}
OwnProps   == ContractProps \cup {NoProp} \cup ArrayProps
ProtoProps == {NoProp, Prop("data", 1), Prop("getter", 0)}

CallRec ==
    [desc : OwnProps \cup ProtoProps, owns : BOOLEAN, installed : BOOLEAN, n : Nat, limit : Nat,
     walked : Nat, at : {"read", "loop", "answer", "callback"}]

\* The accessor is in place until the native has read it; nothing is walked before
\* the length is known, and no further than it; and it is what will be charged.
CallOK(c) ==
    /\ c \in CallRec
    /\ c.installed <=> c.at = "read"
    /\ c.at \in {"read", "answer"} => c.walked = 0
    /\ c.at \in {"loop", "callback"} => c.walked <= c.limit /\ c.limit <= c.n

\* What the receiver has of its own once the accessor is gone.
Underneath(c) == IF c.owns THEN c.desc ELSE NoProp

Reading(calls) == calls # <<>> /\ calls[Len(calls)].at = "read"

\* Only the innermost call can have the accessor in place, and it knows what it hides.
ProbeInv ==
    /\ shown \in OwnProps /\ proto \in ProtoProps
    /\ sparse \in Seq(CallRec)
    /\ \A i \in 1 .. Len(sparse) : CallOK(sparse[i]) /\ (i # Len(sparse) => sparse[i].at # "read")
    /\ IF Reading(sparse) THEN shown = Underneath(TopCall) ELSE own = shown
    /\ lastSparse \in [walked : Nat, paid : Nat] /\ WalkIsPaid

\* The length properties are told apart by their kind.
LEMMA PropKinds ==
  /\ \A p \in OwnProps \cup ProtoProps : p.n \in Nat /\ p.kind \in {"data", "getter", "object", "mute", "none", "fixed"}
  /\ \A p \in OwnProps \cup ProtoProps : p.kind = "mute" => p.n = 0
  /\ \A p \in OwnProps : p.kind = "none" => p = NoProp
  /\ NoProp.kind = "none" /\ \A k, n : Prop(k, n).kind = k /\ Prop(k, n).n = n
BY LengthsAssumption DEF OwnProps, ArrayProps, ProtoProps, ContractProps, Prop, NoProp

\* A length that the contract gives is clamped.
LEMMA LengthBounds == MAX_SAFE \in Nat /\ \A n \in Lengths : n \in Nat /\ n <= MAX_SAFE
BY LengthsAssumption

Ats == {"read", "loop", "answer", "callback"}

\* A call by its counts and by where it is.
IsCall(c, n, limit, walked, at) ==
    c \in CallRec /\ c.n = n /\ c.limit = limit /\ c.walked = walked /\ c.at = at

\* The updates of a call.
LEMMA CallUpdates ==
  ASSUME NEW c \in CallRec
  PROVE  /\ \A x \in Ats : /\ IsCall([c EXCEPT !.at = x], c.n, c.limit, c.walked, x)
                           /\ [c EXCEPT !.at = x].installed = c.installed
                           /\ [c EXCEPT !.at = x].desc = c.desc /\ [c EXCEPT !.at = x].owns = c.owns
         /\ \A x \in Nat : /\ IsCall([c EXCEPT !.n = x], x, c.limit, c.walked, c.at)
                          /\ [c EXCEPT !.n = x].installed = c.installed
                          /\ [c EXCEPT !.n = x].desc = c.desc /\ [c EXCEPT !.n = x].owns = c.owns
         /\ \A x \in Nat : /\ IsCall([c EXCEPT !.limit = x], c.n, x, c.walked, c.at)
                          /\ [c EXCEPT !.limit = x].installed = c.installed
                          /\ [c EXCEPT !.limit = x].desc = c.desc /\ [c EXCEPT !.limit = x].owns = c.owns
         /\ \A x \in Nat : /\ IsCall([c EXCEPT !.walked = x], c.n, c.limit, x, c.at)
                          /\ [c EXCEPT !.walked = x].installed = c.installed
                          /\ [c EXCEPT !.walked = x].desc = c.desc /\ [c EXCEPT !.walked = x].owns = c.owns
         /\ IsCall([c EXCEPT !.installed = FALSE], c.n, c.limit, c.walked, c.at)
         /\ ~[c EXCEPT !.installed = FALSE].installed /\ [c EXCEPT !.installed = FALSE].desc = c.desc
<1>1. ASSUME NEW x \in Ats, NEW e, e = [c EXCEPT !.at = x]
      PROVE  IsCall(e, c.n, c.limit, c.walked, x) /\ e.installed = c.installed
             /\ e.desc = c.desc /\ e.owns = c.owns
  BY <1>1 DEF IsCall, CallRec, Ats
<1>2. ASSUME NEW x \in Nat, NEW e, e = [c EXCEPT !.n = x]
      PROVE  IsCall(e, x, c.limit, c.walked, c.at) /\ e.installed = c.installed
             /\ e.desc = c.desc /\ e.owns = c.owns
  BY <1>2 DEF IsCall, CallRec
<1>3. ASSUME NEW x \in Nat, NEW e, e = [c EXCEPT !.limit = x]
      PROVE  IsCall(e, c.n, x, c.walked, c.at) /\ e.installed = c.installed
             /\ e.desc = c.desc /\ e.owns = c.owns
  BY <1>3 DEF IsCall, CallRec
<1>4. ASSUME NEW x \in Nat, NEW e, e = [c EXCEPT !.walked = x]
      PROVE  IsCall(e, c.n, c.limit, x, c.at) /\ e.installed = c.installed
             /\ e.desc = c.desc /\ e.owns = c.owns
  BY <1>4 DEF IsCall, CallRec
<1>5. ASSUME NEW e, e = [c EXCEPT !.installed = FALSE]
      PROVE  IsCall(e, c.n, c.limit, c.walked, c.at) /\ ~e.installed /\ e.desc = c.desc
  BY <1>5 DEF IsCall, CallRec
<1> QED
  BY <1>1, <1>2, <1>3, <1>4, <1>5

\* What the native finds when it reads the length: one field after another.
LEMMA KnownLength ==
  ASSUME NEW c \in CallRec, ~c.installed, c.walked = 0, NEW n \in Nat, NEW e,
         e = [c EXCEPT !.n = n, !.limit = n, !.at = "loop"]
  PROVE  CallOK(e) /\ e.at # "read" /\ ~e.installed /\ e.desc = c.desc /\ e.owns = c.owns
<1> DEFINE f == [c EXCEPT !.n = n]
           g == [f EXCEPT !.limit = n]
<1>1. IsCall(f, n, c.limit, 0, c.at) /\ f.installed = c.installed /\ f.desc = c.desc /\ f.owns = c.owns
  BY CallUpdates
<1> HIDE DEF f
<1>2. IsCall(g, n, n, 0, c.at) /\ g.installed = c.installed /\ g.desc = c.desc /\ g.owns = c.owns
  <2>1. f \in CallRec /\ f.n = n /\ f.walked = 0
    BY <1>1 DEF IsCall
  <2>2. IsCall(g, f.n, n, f.walked, f.at) /\ g.installed = f.installed /\ g.desc = f.desc /\ g.owns = f.owns
    BY <2>1, CallUpdates
  <2> QED
    BY <1>1, <2>2 DEF IsCall
<1> HIDE DEF g
<1>3. e = [g EXCEPT !.at = "loop"]
  BY DEF f, g
<1>4. IsCall(e, n, n, 0, "loop") /\ e.installed = c.installed /\ e.desc = c.desc /\ e.owns = c.owns
  <2>1. g \in CallRec /\ g.n = n /\ g.limit = n /\ g.walked = 0 /\ "loop" \in Ats
    BY <1>2 DEF IsCall, Ats
  <2>2. /\ IsCall([g EXCEPT !.at = "loop"], g.n, g.limit, g.walked, "loop")
        /\ [g EXCEPT !.at = "loop"].installed = g.installed
        /\ [g EXCEPT !.at = "loop"].desc = g.desc /\ [g EXCEPT !.at = "loop"].owns = g.owns
    BY <2>1, CallUpdates
  <2> QED
    BY <1>2, <1>3, <2>1, <2>2
<1> QED
  BY <1>4 DEF IsCall, CallOK

\* The calls that __sparseLengthProbe can begin.
LEMMA NewCalls ==
  ASSUME NEW d \in OwnProps \cup ProtoProps, NEW owns \in BOOLEAN, NEW n \in Nat
  PROVE  /\ \A c : c = [desc |-> d, owns |-> owns, installed |-> FALSE, n |-> n, limit |-> n,
                       walked |-> 0, at |-> "loop"]
                 => CallOK(c) /\ c.desc = d /\ c.owns = owns
         /\ \A c : c = [desc |-> d, owns |-> owns, installed |-> FALSE, n |-> n, limit |-> 0,
                       walked |-> 0, at |-> "answer"]
                 => CallOK(c) /\ c.desc = d /\ c.owns = owns
         /\ \A c : c = [desc |-> d, owns |-> owns, installed |-> TRUE, n |-> 0, limit |-> 0,
                       walked |-> 0, at |-> "read"]
                 => CallOK(c) /\ c.desc = d /\ c.owns = owns
<1>1. ASSUME NEW c,
             c = [desc |-> d, owns |-> owns, installed |-> FALSE, n |-> n, limit |-> n,
                  walked |-> 0, at |-> "loop"]
      PROVE  CallOK(c) /\ c.desc = d /\ c.owns = owns
  <2>1. c \in CallRec
    BY <1>1 DEF CallRec
  <2>2. /\ c.desc = d /\ c.owns = owns /\ c.n = n /\ c.limit = n
        /\ c.walked = 0 /\ c.at = "loop" /\ (c.installed <=> FALSE)
    BY <1>1
  <2> QED
    BY <2>1, <2>2 DEF CallOK
<1>2. ASSUME NEW c,
             c = [desc |-> d, owns |-> owns, installed |-> FALSE, n |-> n, limit |-> 0,
                  walked |-> 0, at |-> "answer"]
      PROVE  CallOK(c) /\ c.desc = d /\ c.owns = owns
  <2>1. c \in CallRec
    BY <1>2 DEF CallRec
  <2>2. /\ c.desc = d /\ c.owns = owns /\ c.n = n /\ c.limit = 0
        /\ c.walked = 0 /\ c.at = "answer" /\ (c.installed <=> FALSE)
    BY <1>2
  <2> QED
    BY <2>1, <2>2 DEF CallOK
<1>3. ASSUME NEW c,
             c = [desc |-> d, owns |-> owns, installed |-> TRUE, n |-> 0, limit |-> 0,
                  walked |-> 0, at |-> "read"]
      PROVE  CallOK(c) /\ c.desc = d /\ c.owns = owns
  <2>1. c \in CallRec
    BY <1>3 DEF CallRec
  <2>2. /\ c.desc = d /\ c.owns = owns /\ c.n = 0 /\ c.limit = 0
        /\ c.walked = 0 /\ c.at = "read" /\ (c.installed <=> TRUE)
    BY <1>3
  <2> QED
    BY <2>1, <2>2 DEF CallOK
<1> QED
  BY <1>1, <1>2, <1>3, Zenon

\* Its updates make one of them.
LEMMA NewUpdates ==
  ASSUME NEW d, NEW owns, NEW n, NEW b,
         b = [desc |-> d, owns |-> owns, installed |-> FALSE, n |-> 0, limit |-> 0,
              walked |-> 0, at |-> "probe"]
  PROVE  /\ [b EXCEPT !.n = n, !.limit = n, !.at = "loop"] =
              [desc |-> d, owns |-> owns, installed |-> FALSE, n |-> n, limit |-> n,
               walked |-> 0, at |-> "loop"]
         /\ [b EXCEPT !.n = n, !.at = "answer"] =
              [desc |-> d, owns |-> owns, installed |-> FALSE, n |-> n, limit |-> 0,
               walked |-> 0, at |-> "answer"]
         /\ [b EXCEPT !.installed = TRUE, !.at = "read"] =
              [desc |-> d, owns |-> owns, installed |-> TRUE, n |-> 0, limit |-> 0,
               walked |-> 0, at |-> "read"]
<1>1. ASSUME NEW c, c = [b EXCEPT !.n = n, !.limit = n, !.at = "loop"]
      PROVE  c = [desc |-> d, owns |-> owns, installed |-> FALSE, n |-> n, limit |-> n,
                  walked |-> 0, at |-> "loop"]
  BY <1>1
<1>2. ASSUME NEW c, c = [b EXCEPT !.n = n, !.at = "answer"]
      PROVE  c = [desc |-> d, owns |-> owns, installed |-> FALSE, n |-> n, limit |-> 0,
                  walked |-> 0, at |-> "answer"]
  BY <1>2
<1>3. ASSUME NEW c, c = [b EXCEPT !.installed = TRUE, !.at = "read"]
      PROVE  c = [desc |-> d, owns |-> owns, installed |-> TRUE, n |-> 0, limit |-> 0,
                  walked |-> 0, at |-> "read"]
  BY <1>3
<1> QED
  BY <1>1, <1>2, <1>3

\* A call that begins: what __sparseLengthProbe finds.
LEMMA ProbeCallOK ==
  ASSUME NEW d \in OwnProps \cup ProtoProps, NEW owns \in BOOLEAN, NEW b, NEW c,
         b = [desc |-> d, owns |-> owns, installed |-> FALSE, n |-> 0, limit |-> 0,
              walked |-> 0, at |-> "probe"],
         c = ProbeCall(b)
  PROVE  CallOK(c) /\ c.desc = d /\ c.owns = owns
<1>1. d.n \in Nat /\ MAX_SAFE \in Nat
  BY PropKinds, LengthsAssumption
<1> DEFINE ok == CallOK(c) /\ c.desc = d /\ c.owns = owns
           looped == [b EXCEPT !.n = d.n, !.limit = d.n, !.at = "loop"]
           answered == [b EXCEPT !.n = MAX_SAFE, !.at = "answer"]
           reading == [b EXCEPT !.installed = TRUE, !.at = "read"]
<1>2. c = looped \/ c = answered \/ c = reading
  <2>1. b.desc = d
    OBVIOUS
  <2> QED
    BY <2>1 DEF ProbeCall
<1>3. c = looped => ok
  <2> HAVE c = looped
  <2>1. c = [desc |-> d, owns |-> owns, installed |-> FALSE, n |-> d.n, limit |-> d.n,
             walked |-> 0, at |-> "loop"]
    BY NewUpdates, Zenon
  <2> QED
    BY <1>1, <2>1, NewCalls
<1>4. c = answered => ok
  <2> HAVE c = answered
  <2>1. c = [desc |-> d, owns |-> owns, installed |-> FALSE, n |-> MAX_SAFE, limit |-> 0,
             walked |-> 0, at |-> "answer"]
    BY NewUpdates, Zenon
  <2> QED
    BY <1>1, <2>1, NewCalls
<1>5. c = reading => ok
  <2> HAVE c = reading
  <2>1. c = [desc |-> d, owns |-> owns, installed |-> TRUE, n |-> 0, limit |-> 0,
             walked |-> 0, at |-> "read"]
    BY NewUpdates, Zenon
  <2> QED
    BY <1>1, <2>1, NewCalls
<1> HIDE DEF looped, answered, reading
<1> QED
  BY <1>2, <1>3, <1>4, <1>5, Zenon

\* One call more: the accessor is put in only where none is in place.
LEMMA SparseStep ==
  ASSUME ProbeInv, ~Reading(sparse), Sparse
  PROVE  ProbeInv'
<1> DEFINE owns == own.kind # "none"
           d == IF owns THEN own ELSE proto
           b == [desc |-> d, owns |-> owns, installed |-> FALSE, n |-> 0, limit |-> 0,
                 walked |-> 0, at |-> "probe"]
<1>1. own = shown /\ own \in OwnProps /\ proto \in ProtoProps
  BY DEF ProbeInv
<1>2. PICK c : /\ c = ProbeCall(b)
               /\ sparse' = Append(sparse, c)
               /\ own' = IF c.installed THEN Prop("probe", Len(sparse) + 1) ELSE own
  BY DEF Sparse
<1>3. UNCHANGED <<proto, shown, lastSparse>>
  BY DEF Sparse
<1>4. CallOK(c) /\ c.desc = d /\ c.owns = owns
  <2>1. d \in OwnProps \cup ProtoProps /\ owns \in BOOLEAN
    BY <1>1
  <2> HIDE DEF d, owns
  <2> QED
    BY <1>2, <2>1, ProbeCallOK
<1>5. c \in CallRec /\ (c.installed <=> c.at = "read")
  BY <1>4 DEF CallOK
<1>6. /\ sparse' \in Seq(CallRec) /\ Len(sparse') = Len(sparse) + 1 /\ Len(sparse) \in Nat
      /\ \A i \in 1 .. Len(sparse) : sparse'[i] = sparse[i]
      /\ sparse'[Len(sparse')] = c /\ sparse' # <<>>
  BY <1>2, <1>5, AppendProperties, LenProperties DEF ProbeInv
<1>7. \A i \in 1 .. Len(sparse)' : CallOK(sparse'[i]) /\ (i # Len(sparse)' => sparse'[i].at # "read")
  <2> TAKE i \in 1 .. Len(sparse)'
  <2>1. CASE i = Len(sparse)'
    BY <1>4, <1>6, <2>1
  <2>2. CASE i # Len(sparse)'
    <3>1. i \in 1 .. Len(sparse) /\ sparse'[i] = sparse[i]
      BY <1>6, <2>2
    <3>2. CallOK(sparse[i]) /\ sparse[i].at # "read"
      <4>1. CASE i = Len(sparse)
        <5>1. sparse # <<>>
          BY <3>1 DEF ProbeInv
        <5> QED
          BY <3>1, <4>1, <5>1 DEF ProbeInv, Reading
      <4>2. CASE i # Len(sparse)
        BY <3>1, <4>2 DEF ProbeInv
      <4> QED
        BY <4>1, <4>2
    <3> QED
      BY <3>1, <3>2
  <2> QED
    BY <2>1, <2>2
<1>8. IF Reading(sparse') THEN shown' = Underneath(TopCall') ELSE own' = shown'
  <2>1. TopCall' = c
    BY <1>6 DEF TopCall
  <2>2. Reading(sparse') <=> c.installed
    BY <1>5, <1>6 DEF Reading
  <2>3. shown = IF owns THEN d ELSE NoProp
    BY <1>1, PropKinds
  <2>4. Underneath(c) = shown
    BY <1>4, <2>3 DEF Underneath
  <2>5. ~c.installed => own' = own
    BY <1>2
  <2> QED
    BY <1>1, <1>3, <2>1, <2>2, <2>4, <2>5
<1> QED
  BY <1>3, <1>6, <1>7, <1>8 DEF ProbeInv, WalkIsPaid

\* The innermost call moves on, and the accessor is not in place after it.
LEMMA BecomesStep ==
  ASSUME ProbeInv, sparse # <<>>, NEW c, Becomes(c), CallOK(c), c.at # "read",
         own' = IF TopCall.at = "read" THEN Underneath(TopCall) ELSE own,
         UNCHANGED <<proto, shown, lastSparse>>
  PROVE  ProbeInv'
<1> DEFINE k == Len(sparse)
<1>1. c \in CallRec /\ sparse \in Seq(CallRec) /\ k \in Nat /\ k # 0 /\ DOMAIN sparse = 1 .. k
  BY EmptySeq, LenProperties DEF CallOK, ProbeInv
<1>2. sparse' = [sparse EXCEPT ![k] = c]
  BY DEF Becomes
<1>3. /\ sparse' \in Seq(CallRec) /\ Len(sparse') = k /\ sparse' # <<>>
      /\ sparse'[k] = c /\ \A i \in 1 .. k : i # k => sparse'[i] = sparse[i]
  <2>1. k \in 1 .. k
    BY <1>1
  <2>2. sparse' \in Seq(CallRec) /\ Len(sparse') = k
    BY <1>1, <1>2, <2>1, ExceptSeq
  <2> HIDE DEF k
  <2> QED
    BY <1>1, <1>2, <2>1, <2>2, EmptySeq
<1>4. ~Reading(sparse')
  BY <1>3 DEF Reading
<1>5. own' = shown'
  BY DEF ProbeInv, Reading, TopCall
<1>6. \A i \in 1 .. Len(sparse)' : CallOK(sparse'[i]) /\ (i # Len(sparse)' => sparse'[i].at # "read")
  BY <1>3 DEF ProbeInv
<1> QED
  BY <1>3, <1>4, <1>5, <1>6 DEF ProbeInv, WalkIsPaid

\* A call ends, by a return or a throw: what it hid is back already, and the calls
\* around it are not reading.
LEMMA EndsStep ==
  ASSUME ProbeInv, sparse # <<>>, TopCall.at # "read", EndsWith(TopCall)
  PROVE  ProbeInv'
<1> DEFINE k == Len(sparse)
<1>1. sparse \in Seq(CallRec) /\ k \in Nat /\ k # 0 /\ CallOK(TopCall) /\ ~TopCall.installed
  BY EmptySeq, LenProperties DEF CallOK, ProbeInv, TopCall
<1>2. sparse' = SubSeq(sparse, 1, k - 1)
  BY DEF EndsWith
<1>3. /\ sparse' \in Seq(CallRec) /\ Len(sparse') = k - 1
      /\ \A i \in 1 .. k - 1 : sparse'[i] = sparse[i]
  <2>1. 1 \in Int /\ k - 1 \in Int /\ \A i \in 1 .. k - 1 : i \in DOMAIN sparse /\ sparse[i] \in CallRec
    BY <1>1, LenProperties
  <2> HIDE DEF k
  <2>2. /\ SubSeq(sparse, 1, k - 1) \in Seq(CallRec) /\ Len(SubSeq(sparse, 1, k - 1)) = (IF 1 <= k - 1 THEN k - 1 - 1 + 1 ELSE 0)
        /\ \A i \in 1 .. k - 1 - 1 + 1 : SubSeq(sparse, 1, k - 1)[i] = sparse[1 + i - 1]
    BY <2>1, SubSeqProperties
  <2> QED
    BY <1>1, <1>2, <2>2
<1>4. \A i \in 1 .. k - 1 : CallOK(sparse'[i]) /\ sparse'[i].at # "read"
  BY <1>1, <1>3 DEF ProbeInv
<1>5. ~Reading(sparse')
  <2> SUFFICES ASSUME sparse' # <<>> PROVE sparse'[Len(sparse')].at # "read"
    BY DEF Reading
  <2>1. k - 1 \in 1 .. k - 1
    BY <1>1, <1>3, EmptySeq
  <2> QED
    BY <1>3, <1>4, <2>1
<1>6. own' = own /\ own = shown
  BY <1>1 DEF EndsWith, Restored, ProbeInv, Reading, TopCall
<1>7. lastSparse' = [walked |-> TopCall.walked, paid |-> TopCall.n] /\ UNCHANGED <<proto, shown>>
  BY <1>1 DEF EndsWith
<1>8. TopCall.walked \in Nat /\ TopCall.n \in Nat /\ TopCall.walked <= TopCall.n
  <2>1. TopCall \in CallRec
    BY <1>1 DEF CallOK
  <2>2. TopCall.walked \in Nat /\ TopCall.n \in Nat /\ TopCall.limit \in Nat
        /\ TopCall.at \in {"loop", "answer", "callback", "read"}
    BY <2>1 DEF CallRec
  <2> QED
    BY <1>1, <2>2 DEF CallOK
<1>9. lastSparse' \in [walked : Nat, paid : Nat] /\ WalkIsPaid'
  BY <1>7, <1>8 DEF WalkIsPaid
<1> QED
  BY <1>3, <1>4, <1>5, <1>6, <1>7, <1>9 DEF ProbeInv

\* Every step preserves the invariant.
LEMMA ProbeStep == ProbeInv /\ [ProbeNext]_probeVars => ProbeInv'
<1> SUFFICES ASSUME ProbeInv, [ProbeNext]_probeVars PROVE ProbeInv'
  OBVIOUS
<1> DEFINE c == TopCall
<1>0. ASSUME sparse # <<>> PROVE CallOK(c) /\ c \in CallRec
  <2>1. Len(sparse) \in 1 .. Len(sparse)
    BY <1>0, EmptySeq, LenProperties DEF ProbeInv
  <2> QED
    BY <2>1 DEF ProbeInv, TopCall, CallOK
<1>t. ASSUME c \in CallRec
      PROVE  /\ c.desc \in OwnProps \cup ProtoProps /\ c.n \in Nat /\ c.limit \in Nat /\ c.walked \in Nat
             /\ c.at \in Ats
  BY <1>t DEF CallRec, Ats
<1>1. CASE CallSparse
  BY <1>1, SparseStep DEF CallSparse, Reading
<1>2. CASE NativeReads
  <2>1. sparse # <<>> /\ c.at = "read" /\ c.installed /\ c.walked = 0 /\ c \in CallRec
    BY <1>0, <1>2 DEF NativeReads, CallOK
  <2>2. own' = Underneath(c) /\ UNCHANGED <<proto, shown, lastSparse>>
    BY <1>2, <2>1 DEF NativeReads, Restored, Underneath
  <2> DEFINE e == [c EXCEPT !.installed = FALSE]
             f == [e EXCEPT !.at = "answer"]
             g == [e EXCEPT !.n = c.desc.n, !.limit = c.desc.n, !.at = "loop"]
  <2>3. IsCall(e, c.n, c.limit, c.walked, c.at) /\ ~e.installed /\ e.desc = c.desc
    BY <2>1, CallUpdates
  <2>4. Becomes(f) \/ Becomes(g)
    BY <1>2, <2>3 DEF NativeReads
  <2> HIDE DEF c, e
  <2>5. IsCall(f, c.n, c.limit, c.walked, "answer") /\ f.installed = e.installed
    BY <2>3, CallUpdates DEF IsCall, Ats
  <2>6. CallOK(f) /\ f.at # "read"
    BY <2>1, <2>3, <2>5 DEF IsCall, CallOK
  <2>7. CallOK(g) /\ g.at # "read"
    <3>1. c.desc.n \in Nat
      BY <1>t, <2>1, PropKinds
    <3> QED
      BY <2>1, <2>3, <3>1, KnownLength DEF IsCall
  <2> HIDE DEF f, g
  <2> QED
    BY <2>1, <2>2, <2>4, <2>6, <2>7, BecomesStep DEF c
<1>3. ASSUME NEW hole \in BOOLEAN, Walk(hole) PROVE ProbeInv'
  <2>1. sparse # <<>> /\ c.at = "loop" /\ c.walked < c.limit /\ c.limit <= c.n /\ ~c.installed
        /\ c \in CallRec
    BY <1>0, <1>3 DEF Walk, CallOK
  <2> DEFINE at == IF hole THEN "loop" ELSE "callback"
             e == [c EXCEPT !.walked = c.walked + 1]
             f == [e EXCEPT !.at = at]
  <2>2. Becomes(f) /\ UNCHANGED <<own, proto, shown, lastSparse>>
    BY <1>3 DEF Walk
  <2> HIDE DEF c
  <2>3. IsCall(e, c.n, c.limit, c.walked + 1, c.at) /\ e.installed = c.installed
    <3>1. c.walked + 1 \in Nat
      BY <1>t, <2>1
    <3> QED
      BY <2>1, <3>1, CallUpdates
  <2> HIDE DEF e
  <2>4. at \in {"loop", "callback"}
    OBVIOUS
  <2> HIDE DEF at
  <2>5. IsCall(f, c.n, c.limit, c.walked + 1, at) /\ f.installed = e.installed
    <3>1. e \in CallRec /\ at \in Ats
      BY <2>3, <2>4 DEF IsCall, Ats
    <3>2. IsCall(f, e.n, e.limit, e.walked, at) /\ f.installed = e.installed
      BY <3>1, CallUpdates
    <3> QED
      BY <2>3, <3>2 DEF IsCall
  <2> HIDE DEF f
  <2>6. CallOK(f) /\ f.at # "read"
    BY <1>t, <2>1, <2>3, <2>4, <2>5 DEF IsCall, CallOK
  <2> QED
    BY <2>1, <2>2, <2>6, BecomesStep DEF c
<1>4. CASE Returns
  BY <1>4, EndsStep DEF Returns
<1>5. CASE CallbackReturns
  <2>1. sparse # <<>> /\ c.at = "callback" /\ c.walked <= c.limit /\ c.limit <= c.n /\ ~c.installed
        /\ c \in CallRec
    BY <1>0, <1>5 DEF CallbackReturns, CallOK
  <2> DEFINE f == [c EXCEPT !.at = "loop"]
  <2>2. Becomes(f) /\ UNCHANGED <<own, proto, shown, lastSparse>>
    BY <1>5 DEF CallbackReturns
  <2> HIDE DEF c
  <2>3. IsCall(f, c.n, c.limit, c.walked, "loop") /\ f.installed = c.installed
    BY <2>1, CallUpdates DEF Ats
  <2> HIDE DEF f
  <2>4. CallOK(f) /\ f.at # "read"
    BY <2>1, <2>3 DEF IsCall, CallOK
  <2> QED
    BY <2>1, <2>2, <2>4, BecomesStep DEF c
<1>6. CASE CodeThrows
  BY <1>6, EndsStep DEF CodeThrows, InCode
<1>7. CASE CallsAgain
  BY <1>7, SparseStep DEF CallsAgain, Moves, InCode, Reading, TopCall
<1>8. ASSUME NEW n \in Lengths, AnswersLength(n) PROVE ProbeInv'
  <2>1. sparse # <<>> /\ c.at = "answer" /\ c.walked = 0 /\ ~c.installed /\ c \in CallRec
    BY <1>0, <1>8 DEF AnswersLength, CallOK
  <2> DEFINE most == IF c.n = MAX_SAFE THEN MAX_SAFE ELSE n
             e == [c EXCEPT !.at = "loop"]
             f == [e EXCEPT !.limit = n]
             g == [f EXCEPT !.n = most]
  <2>2. Becomes(g) /\ UNCHANGED <<own, proto, shown, lastSparse>>
    BY <1>8 DEF AnswersLength
  <2>3. n \in Nat /\ most \in Nat /\ n <= most
    <3>1. n \in Nat /\ MAX_SAFE \in Nat /\ n <= MAX_SAFE
      BY LengthBounds
    <3>2. most = MAX_SAFE \/ most = n
      OBVIOUS
    <3> HIDE DEF most
    <3> QED
      BY <3>1, <3>2
  <2> HIDE DEF c, most
  <2>4. IsCall(e, c.n, c.limit, c.walked, "loop") /\ e.installed = c.installed
    BY <2>1, CallUpdates DEF Ats
  <2> HIDE DEF e
  <2>5. IsCall(f, c.n, n, c.walked, "loop") /\ f.installed = e.installed
    <3>1. e \in CallRec
      BY <2>4 DEF IsCall
    <3>2. IsCall(f, e.n, n, e.walked, e.at) /\ f.installed = e.installed
      BY <2>3, <3>1, CallUpdates
    <3> QED
      BY <2>4, <3>2 DEF IsCall
  <2> HIDE DEF f
  <2>6. IsCall(g, most, n, c.walked, "loop") /\ g.installed = f.installed
    <3>1. f \in CallRec
      BY <2>5 DEF IsCall
    <3>2. IsCall(g, most, f.limit, f.walked, f.at) /\ g.installed = f.installed
      BY <2>3, <3>1, CallUpdates
    <3> QED
      BY <2>5, <3>2 DEF IsCall
  <2> HIDE DEF g
  <2>7. CallOK(g) /\ g.at # "read"
    BY <2>1, <2>3, <2>4, <2>5, <2>6 DEF IsCall, CallOK
  <2> QED
    BY <2>1, <2>2, <2>7, BecomesStep DEF c
<1>9. ASSUME NEW p \in OwnProps, Redefines(p) PROVE ProbeInv'
  <2>1. own' = p /\ shown' = p /\ UNCHANGED <<proto, sparse, lastSparse>> /\ ~Reading(sparse)
    BY <1>9 DEF Redefines, Moves, InCode, Reading, TopCall
  <2> QED
    BY <2>1 DEF ProbeInv, WalkIsPaid, Reading, TopCall
<1>10. CASE UNCHANGED probeVars
  BY <1>10 DEF probeVars, ProbeInv, WalkIsPaid, Reading, TopCall
<1> QED
  BY <1>1, <1>2, <1>3, <1>4, <1>5, <1>6, <1>7, <1>8, <1>9, <1>10 DEF ProbeNext, OwnProps, ArrayProps

\* The accessor of the harness is never seen by contract code and never put back
\* over a later definition, and what the native walked is charged, for any lengths,
\* any number of nested calls and any moves of the contract (harness_part_5.js).
THEOREM ProbeIsInvisible == ProbeSpec => [](ProbeLeavesNoTrace /\ WalkIsPaid)
<1>1. ProbeInit => ProbeInv
  <2> SUFFICES ASSUME ProbeInit PROVE ProbeInv
    OBVIOUS
  <2>1. sparse = <<>> /\ Len(sparse) = 0 /\ sparse \in Seq(CallRec)
    BY DEF ProbeInit
  <2> QED
    BY <2>1 DEF ProbeInit, ProbeInv, OwnProps, ArrayProps, ProtoProps, Reading, WalkIsPaid
<1>2. ProbeInv => ProbeLeavesNoTrace /\ WalkIsPaid
  BY DEF ProbeInv, ProbeLeavesNoTrace, InCode, Reading, TopCall
<1> QED
  BY <1>1, <1>2, ProbeStep, PTL DEF ProbeSpec

(***************************************************************************)
(* The metered built-ins.  A call charges before its native runs and again *)
(* when it sees the result, so between the two the work is ahead of the    *)
(* gas: the invariant says of each stage by how much at most, and that the *)
(* charge still to come brings it, whether it is paid or ends the call.    *)
(***************************************************************************)
\* What a wrapper charges pays for the work of its native, but for the free part.
Paid(m) ==
    /\ m.before \in Nat /\ m.after \in Nat /\ m.work \in Nat
    /\ m.work <= m.before + m.after + FreeWork

\* The helpers of the charges.
LEMMA Charges ==
  /\ FreeWork \in Nat /\ 2 <= FreeWork /\ GROW_THRESHOLD <= FreeWork
  /\ \A n \in Nat : allocGas(n) \in Nat /\ n <= allocGas(n) + 1
  /\ \A n \in Nat : gasOver(n) \in Nat /\ n <= gasOver(n) + GROW_THRESHOLD
  /\ \A a, b \in Nat : Larger(a, b) \in Nat
BY MetersAssumption DEF FreeWork, allocGas, gasOver, Larger

\* Products are sizes too.
LEMMA ProductNat == ASSUME NEW a \in Nat, NEW b \in Nat PROVE a * b \in Nat
OBVIOUS

\* The number of doublings; a sort of one element compares nothing.
LEMMA LgSize ==
  ASSUME NEW n \in Nat
  PROVE  Lg(n) \in Nat /\ n * Lg(n) \in Nat /\ (n <= 1 => n * Lg(n) <= 1)
<1> DEFINE S == {k \in 0 .. n - 1 : 2^k < n}
<1>1. /\ IsFiniteSet(0 .. n - 1) /\ S \subseteq 0 .. n - 1
      /\ Cardinality(0 .. n - 1) = IF 0 > n - 1 THEN 0 ELSE n - 1 - 0 + 1
  BY FS_Interval
<1>2. IsFiniteSet(S) /\ Cardinality(S) <= Cardinality(0 .. n - 1)
  BY <1>1, FS_Subset
<1>3. Cardinality(S) \in Nat
  BY <1>2, FS_CardinalityType
<1>4. Lg(n) = Cardinality(S)
  BY DEF Lg
<1> HIDE DEF S
<1>5. Lg(n) \in Nat /\ Lg(n) <= n
  BY <1>1, <1>2, <1>3, <1>4
<1>6. n <= 1 => n = 0 \/ (n = 1 /\ Lg(n) <= 1)
  BY <1>5
<1> QED
  BY <1>5, <1>6, ProductNat

\* Past every gate each wrapper pays.
LEMMA MetersPay ==
  ASSUME NEW n \in Nat, NEW m \in Nat, NEW r \in Nat
  PROVE  \A name \in DOMAIN Meters(AllGates, n, m, r) : Paid(Meters(AllGates, n, m, r)[name])
<1> DEFINE g == AllGates
<1>g. "upgrade" \in g /\ "pkg3" \in g /\ "iterSet" \in g /\ "applyLength" \in g /\ "perElement" \in g
      /\ "stringResult" \in g
  BY DEF AllGates
<1>c. {"applyLength", "stringResult"} \subseteq g
  BY <1>g
<1>n. /\ m * n \in Nat /\ m * BPE \in Nat /\ r * BPE \in Nat /\ n * Lg(n) \in Nat
      /\ n + m \in Nat /\ n + r \in Nat /\ m + r \in Nat /\ n * Lg(n) + m \in Nat
      /\ (n <= 1 => n * Lg(n) <= 1)
  BY ProductNat, LgSize, MetersAssumption
<1> DEFINE N(x) == x \in Nat /\ allocGas(x) \in Nat /\ x <= allocGas(x) + 1
<1>a. /\ N(n) /\ N(m) /\ N(r) /\ N(m * n) /\ N(m * BPE) /\ N(r * BPE) /\ N(n * Lg(n))
      /\ N(n + m) /\ N(n + r) /\ N(m + r) /\ N(n * Lg(n) + m) /\ N(Larger(n, r))
      /\ gasOver(m) \in Nat /\ m <= gasOver(m) + GROW_THRESHOLD
      /\ FreeWork \in Nat /\ 2 <= FreeWork /\ GROW_THRESHOLD <= FreeWork /\ GROW_THRESHOLD \in Nat
  BY <1>n, Charges, MetersAssumption
<1> HIDE DEF g
<1>1. Paid(fill(g, n, m, r))
  BY <1>g, <1>c, <1>n, <1>a DEF fill, Before, After, Meter, Paid, When
<1>2. Paid(fromLength(g, n, m, r))
  BY <1>g, <1>c, <1>n, <1>a DEF fromLength, Before, After, Meter, Paid, When
<1>3. Paid(fromSize(g, n, m, r))
  BY <1>g, <1>c, <1>n, <1>a DEF fromSize, Before, After, Meter, Paid, When
<1>4. Paid(fromIterator(g, n, m, r))
  BY <1>g, <1>c, <1>n, <1>a DEF fromIterator, Before, After, Meter, Paid, When
<1>5. Paid(repeat(g, n, m, r))
  BY <1>g, <1>c, <1>n, <1>a DEF repeat, Before, After, Meter, Paid, When
<1>6. Paid(pad(g, n, m, r))
  BY <1>g, <1>c, <1>n, <1>a DEF pad, Before, After, Meter, Paid, When
<1>7. Paid(meterBinaryCtor(g, n, m, r))
  BY <1>g, <1>c, <1>n, <1>a DEF meterBinaryCtor, Before, After, Meter, Paid, When
<1>8. Paid(binaryFromIterator(g, n, m, r))
  BY <1>g, <1>c, <1>n, <1>a DEF binaryFromIterator, Before, After, Meter, Paid, When
<1>9. Paid(meterCollectionCtor(g, n, m, r))
  BY <1>g, <1>c, <1>n, <1>a DEF meterCollectionCtor, Before, After, Meter, Paid, When
<1>10. Paid(collectionFromIterator(g, n, m, r))
  BY <1>g, <1>c, <1>n, <1>a DEF collectionFromIterator, Before, After, Meter, Paid, When
<1>11. Paid(meterCollectionMutator(g, n, m, r))
  BY <1>g, <1>c, <1>n, <1>a DEF meterCollectionMutator, Before, After, Meter, Paid, When
<1>12. Paid(meterGlobalFn(g, n, m, r))
  BY <1>g, <1>c, <1>n, <1>a DEF meterGlobalFn, Before, After, Meter, Paid, When
<1>13. Paid(meterLen(g, n, m, r))
  BY <1>g, <1>c, <1>n, <1>a DEF meterLen, Before, After, Meter, Paid, When
<1>14. Paid(typedMeterLen(g, n, m, r))
  BY <1>g, <1>c, <1>n, <1>a DEF typedMeterLen, Before, After, Meter, Paid, When
<1>15. Paid(msort(g, n, m, r))
  BY <1>g, <1>c, <1>n, <1>a DEF msort, Before, After, Meter, Paid, When
<1>16. Paid(tasort(g, n, m, r))
  BY <1>g, <1>c, <1>n, <1>a DEF tasort, Before, After, Meter, Paid, When
<1>17. Paid(ajoin(g, n, m, r))
  BY <1>g, <1>c, <1>n, <1>a DEF ajoin, nativeDepthScan, Before, After, Meter, Paid, When
<1>18. Paid(typedJoin(g, n, m, r))
  BY <1>g, <1>c, <1>n, <1>a DEF typedJoin, Before, After, Meter, Paid, When
<1>19. Paid(taset(g, n, m, r))
  BY <1>g, <1>c, <1>n, <1>a DEF taset, Before, After, Meter, Paid, When
<1>20. Paid(mreplace(g, n, m, r))
  BY <1>g, <1>c, <1>n, <1>a DEF mreplace, Before, After, Meter, Paid, When
<1>21. Paid(concat(g, n, m, r))
  BY <1>g, <1>c, <1>n, <1>a DEF concat, Before, After, Meter, Paid, When
<1>22. Paid(meterObjStatic(g, n, m, r))
  BY <1>g, <1>c, <1>n, <1>a DEF meterObjStatic, Before, After, Meter, Paid, When
<1>23. Paid(arrspread(g, n, m, r))
  BY <1>g, <1>c, <1>n, <1>a DEF arrspread, Before, After, Meter, Paid, When
<1>24. Paid(objspread(g, n, m, r))
  BY <1>g, <1>c, <1>n, <1>a DEF objspread, Before, After, Meter, Paid, When
<1>25. Paid(setAlgebra(g, n, m, r))
  BY <1>g, <1>c, <1>n, <1>a DEF setAlgebra, Before, After, Meter, Paid, When
<1>26. Paid(iterToArray(g, n, m, r))
  BY <1>g, <1>c, <1>n, <1>a DEF iterToArray, Before, After, Meter, Paid, When
<1>27. Paid(iterDrop(g, n, m, r))
  BY <1>g, <1>c, <1>n, <1>a DEF iterDrop, Before, After, Meter, Paid, When
<1>28. Paid(iterCallback(g, n, m, r))
  BY <1>g, <1>c, <1>n, <1>a DEF iterCallback, Before, After, Meter, Paid, When
<1>29. Paid(fnApply(g, n, m, r))
  BY <1>g, <1>c, <1>n, <1>a DEF fnApply, Before, After, Meter, Paid, When
<1>30. Paid(meterStringResult(g, n, m, r))
  BY <1>g, <1>c, <1>n, <1>a DEF meterStringResult, Before, After, Meter, Paid, When
<1>31. Paid(stringRaw(g, n, m, r))
  BY <1>g, <1>c, <1>n, <1>a DEF stringRaw, Before, After, Meter, Paid, When
<1>32. Paid(resize(g, n, m, r))
  BY <1>g, <1>c, <1>n, <1>a DEF resize, Before, After, Meter, Paid, When
<1> DEFINE M == Meters(g, n, m, r)
<1>33. ASSUME NEW name \in DOMAIN M PROVE Paid(M[name])
  <2>1. name \in {"fill", "fromLength", "fromSize", "fromIterator", "repeat", "pad",
                  "binaryCtor", "binaryFromIterator", "collectionCtor",
                  "collectionFromIterator", "collectionMutator", "globalFn", "meterLen",
                  "typedMeterLen", "sort", "typedSort", "join", "typedJoin", "typedSet",
                  "replace", "concat", "objStatic", "arrspread", "objspread", "setAlgebra",
                  "toArray", "drop", "iterCallback", "apply", "html", "raw", "resize"}
    BY DEF Meters
  <2>2. CASE name = "fill"
    BY <1>1, <2>2 DEF Meters
  <2>3. CASE name = "fromLength"
    BY <1>2, <2>3 DEF Meters
  <2>4. CASE name = "fromSize"
    BY <1>3, <2>4 DEF Meters
  <2>5. CASE name = "fromIterator"
    BY <1>4, <2>5 DEF Meters
  <2>6. CASE name = "repeat"
    BY <1>5, <2>6 DEF Meters
  <2>7. CASE name = "pad"
    BY <1>6, <2>7 DEF Meters
  <2>8. CASE name = "binaryCtor"
    BY <1>7, <2>8 DEF Meters
  <2>9. CASE name = "binaryFromIterator"
    BY <1>8, <2>9 DEF Meters
  <2>10. CASE name = "collectionCtor"
    BY <1>9, <2>10 DEF Meters
  <2>11. CASE name = "collectionFromIterator"
    BY <1>10, <2>11 DEF Meters
  <2>12. CASE name = "collectionMutator"
    BY <1>11, <2>12 DEF Meters
  <2>13. CASE name = "globalFn"
    BY <1>12, <2>13 DEF Meters
  <2>14. CASE name = "meterLen"
    BY <1>13, <2>14 DEF Meters
  <2>15. CASE name = "typedMeterLen"
    BY <1>14, <2>15 DEF Meters
  <2>16. CASE name = "sort"
    BY <1>15, <2>16 DEF Meters
  <2>17. CASE name = "typedSort"
    BY <1>16, <2>17 DEF Meters
  <2>18. CASE name = "join"
    BY <1>17, <2>18 DEF Meters
  <2>19. CASE name = "typedJoin"
    BY <1>18, <2>19 DEF Meters
  <2>20. CASE name = "typedSet"
    BY <1>19, <2>20 DEF Meters
  <2>21. CASE name = "replace"
    BY <1>20, <2>21 DEF Meters
  <2>22. CASE name = "concat"
    BY <1>21, <2>22 DEF Meters
  <2>23. CASE name = "objStatic"
    BY <1>22, <2>23 DEF Meters
  <2>24. CASE name = "arrspread"
    BY <1>23, <2>24 DEF Meters
  <2>25. CASE name = "objspread"
    BY <1>24, <2>25 DEF Meters
  <2>26. CASE name = "setAlgebra"
    BY <1>25, <2>26 DEF Meters
  <2>27. CASE name = "toArray"
    BY <1>26, <2>27 DEF Meters
  <2>28. CASE name = "drop"
    BY <1>27, <2>28 DEF Meters
  <2>29. CASE name = "iterCallback"
    BY <1>28, <2>29 DEF Meters
  <2>30. CASE name = "apply"
    BY <1>29, <2>30 DEF Meters
  <2>31. CASE name = "html"
    BY <1>30, <2>31 DEF Meters
  <2>32. CASE name = "raw"
    BY <1>31, <2>32 DEF Meters
  <2>33. CASE name = "resize"
    BY <1>32, <2>33 DEF Meters
  <2> HIDE DEF M
  <2> QED
    BY <2>1, <2>2, <2>3, <2>4, <2>5, <2>6, <2>7, <2>8, <2>9, <2>10, <2>11, <2>12, <2>13, <2>14,
       <2>15, <2>16, <2>17, <2>18, <2>19, <2>20, <2>21, <2>22, <2>23, <2>24, <2>25, <2>26,
       <2>27, <2>28, <2>29, <2>30, <2>31, <2>32, <2>33
<1> QED
  BY <1>33 DEF g

\* A set-like argument whose keys are being walked.
LikeRec == [at : {"keys"}, n : Nat, claim : Nat, walked : Nat, pending : Nat, paid : Nat]

\* A call of a wrapper whose first charge was paid.
NativeRec == [at : {"native", "after"}, static : BOOLEAN, after : Nat, work : Nat]

\* What is charged and what is pending make up the claim and the keys beyond it.
Settled(c) == c.paid + c.pending = allocGas(c.n + c.claim) + Larger(c.walked - c.claim, 0)

\* Whatever the gates: a walk has paid or has pending what it must.
KeysInv ==
    /\ "at" \in DOMAIN wrapper
    /\ wrapper.at = "keys" => wrapper \in LikeRec /\ Settled(wrapper)
    /\ KeysArePaid

\* What the calls so far had to pay with, but for what the one under way still owes.
Credit == gasPaid + FreeWork * (MaxCalls - callsLeft) + unpaid
Owed(c) ==
    CASE c.at = "after" -> c.work
      [] c.at = "keys" -> c.pending
      [] OTHER -> 0

\* Each stage of a call owes what its next charge brings, or the work itself if that
\* charge should fail.
CallCovered(c, work, credit) ==
    /\ c.at \in {"native", "after"} => c \in NativeRec
    /\ c.at = "native" => work + c.work <= credit + c.after
    /\ c.at = "after" => work <= credit + c.after
    /\ c.at = "keys" => (work + c.n) + Larger(c.claim - c.walked, 0) <= credit + c.pending
    /\ work <= credit + Owed(c)

\* The counters are numbers.
Counts ==
    /\ gasLeft \in Nat /\ gasPaid \in Nat /\ nativeWork \in Nat /\ unpaid \in Nat
    /\ callsLeft \in 0 .. MaxCalls

WorkInv == Counts /\ CallCovered(wrapper, nativeWork, Credit)

MetersInv == KeysInv /\ (gates = AllGates => WorkInv)

\* A charge takes what there is.
LEMMA ChargeStep ==
  ASSUME gasLeft \in Nat, gasPaid \in Nat, NEW x \in Nat, Charge(x)
  PROVE  /\ gasLeft' \in Nat /\ gasPaid' \in Nat /\ gasPaid <= gasPaid'
         /\ Pays(x) => gasPaid' = gasPaid + x
         /\ ~Pays(x) => 0 < x
BY DEF Charge, Pays, Larger

\* One call more has one more free part.
LEMMA FreeStep ==
  ASSUME NEW k \in 0 .. MaxCalls, k > 0
  PROVE  /\ FreeWork * (MaxCalls - (k - 1)) = FreeWork * (MaxCalls - k) + FreeWork
         /\ FreeWork * (MaxCalls - k) \in Nat
<1>1. MaxCalls - k \in Nat /\ FreeWork \in Nat /\ MaxCalls - (k - 1) = (MaxCalls - k) + 1
  BY Charges, CallsAssumption
<1>2. ASSUME NEW a \in Nat, NEW b \in Nat PROVE a * (b + 1) = a * b + a /\ a * b \in Nat
  OBVIOUS
<1> QED
  BY <1>1, <1>2

\* The credit is a number.
LEMMA CreditNat == ASSUME Counts PROVE Credit \in Nat
<1>1. MaxCalls - callsLeft \in Nat /\ FreeWork \in Nat
  BY Charges, CallsAssumption DEF Counts
<1>2. FreeWork * (MaxCalls - callsLeft) \in Nat
  BY <1>1, ProductNat
<1> QED
  BY <1>2 DEF Counts, Credit

\* What a key adds is charged or pending (__pemCountedKeys).
LEMMA TallyFacts ==
  ASSUME NEW c \in LikeRec
  PROVE  /\ Tally(c).pending \in Nat /\ Tally(c).due \in Nat
         /\ c.walked + 1 <= c.claim => Tally(c).pending = c.pending /\ Tally(c).due = 0
         /\ ~(c.walked + 1 <= c.claim) => Tally(c).pending + Tally(c).due = c.pending + 1
         /\ 0 < Tally(c).due => Tally(c).pending = 0 /\ Tally(c).due = c.pending + 1
<1>1. c.walked \in Nat /\ c.claim \in Nat /\ c.pending \in Nat /\ TALLY_BATCH \in Nat
  BY MetersAssumption DEF LikeRec
<1>2. CASE c.walked + 1 <= c.claim
  BY <1>1, <1>2 DEF Tally
<1>3. CASE ~(c.walked + 1 <= c.claim) /\ c.pending + 1 = TALLY_BATCH
  BY <1>1, <1>3 DEF Tally
<1>4. CASE ~(c.walked + 1 <= c.claim) /\ c.pending + 1 # TALLY_BATCH
  BY <1>1, <1>4 DEF Tally
<1> QED
  BY <1>2, <1>3, <1>4

\* The keys of a set-like argument, one more walked.
LEMMA WalkedLike ==
  ASSUME NEW c \in LikeRec, NEW p \in Nat, NEW d \in Nat, NEW e,
         e = [at |-> "keys", n |-> c.n, claim |-> c.claim, walked |-> c.walked + 1, pending |-> p,
              paid |-> c.paid + d]
  PROVE  /\ e \in LikeRec /\ e.at = "keys" /\ e.n = c.n /\ e.claim = c.claim
         /\ e.walked = c.walked + 1 /\ e.pending = p /\ e.paid = c.paid + d
<1>1. c.walked + 1 \in Nat /\ c.paid + d \in Nat /\ c.n \in Nat /\ c.claim \in Nat /\ c.at = "keys"
  BY DEF LikeRec
<1> QED
  BY <1>1 DEF LikeRec

\* The two calls that hold no record but their stage.
LEMMA Stages ==
  /\ "at" \in DOMAIN NoCall /\ NoCall.at = "none" /\ "at" \in DOMAIN OutOfGas /\ OutOfGas.at = "fault"
BY DEF NoCall, OutOfGas

\* A wrapper's record, and the same one once the native has run.
LEMMA NativeCall ==
  ASSUME NEW b, NEW a \in Nat, NEW w \in Nat, NEW e,
         e = [at |-> "native", static |-> b, after |-> a, work |-> w], b \in BOOLEAN
  PROVE  e \in NativeRec /\ e.at = "native" /\ e.after = a /\ e.work = w
BY DEF NativeRec

\* The same record once the native has run.
LEMMA NativeRan ==
  ASSUME NEW c \in NativeRec, NEW e, e = [c EXCEPT !.at = "after"]
  PROVE  e \in NativeRec /\ e.at = "after" /\ e.after = c.after /\ e.work = c.work
BY DEF NativeRec

\* The walk of a set-like argument begins with nothing walked.
LEMMA LikeBegins ==
  ASSUME NEW n \in Nat, NEW claim \in Nat, NEW p \in Nat, NEW e,
         e = [at |-> "keys", n |-> n, claim |-> claim, walked |-> 0, pending |-> 0, paid |-> p]
  PROVE  e \in LikeRec /\ e.at = "keys" /\ e.n = n /\ e.claim = claim /\ e.walked = 0
         /\ e.pending = 0 /\ e.paid = p
BY DEF LikeRec

\* The numbers of a walk.
LEMMA LikeNat ==
  ASSUME NEW c \in LikeRec
  PROVE  /\ c.n \in Nat /\ c.claim \in Nat /\ c.walked \in Nat /\ c.pending \in Nat /\ c.paid \in Nat
         /\ allocGas(c.n + c.claim) \in Nat /\ c.n + c.claim <= allocGas(c.n + c.claim) + 1
<1>1. c.n \in Nat /\ c.claim \in Nat /\ c.walked \in Nat /\ c.pending \in Nat /\ c.paid \in Nat
  BY DEF LikeRec
<1>2. c.n + c.claim \in Nat
  BY <1>1
<1> QED
  BY <1>1, <1>2, Charges

\* One key more is within the claim, or one more beyond it.
LEMMA KeyPaid ==
  ASSUME NEW c \in LikeRec, NEW e \in LikeRec, NEW p \in Nat, NEW d \in Nat, Settled(c),
         c.walked + 1 <= c.claim => p = c.pending /\ d = 0,
         ~(c.walked + 1 <= c.claim) => p + d = c.pending + 1,
         e.n = c.n, e.claim = c.claim, e.walked = c.walked + 1, e.pending = p, e.paid = c.paid + d
  PROVE  Settled(e)
<1>1. c.n \in Nat /\ c.claim \in Nat /\ c.walked \in Nat /\ c.pending \in Nat /\ c.paid \in Nat
      /\ allocGas(c.n + c.claim) \in Nat
  BY LikeNat
<1>2. Larger((c.walked + 1) - c.claim, 0) =
         IF c.walked + 1 <= c.claim THEN Larger(c.walked - c.claim, 0) ELSE Larger(c.walked - c.claim, 0) + 1
  BY <1>1 DEF Larger
<1>3. Larger(c.walked - c.claim, 0) \in Nat
  BY <1>1 DEF Larger
<1>4. (c.paid + d) + p = allocGas(c.n + c.claim) + Larger((c.walked + 1) - c.claim, 0)
  BY <1>1, <1>2, <1>3 DEF Settled
<1> QED
  BY <1>4, Zenon DEF Settled

\* What the calls under way have paid for keys is kept by every step.
LEMMA KeysStep == KeysInv /\ [MetersNext]_meterVars => KeysInv'
<1> SUFFICES ASSUME KeysInv, [MetersNext]_meterVars PROVE KeysInv'
  OBVIOUS
<1>s. Sizes \subseteq Nat
  BY SizesAssumption
<1>1. ASSUME NEW n \in Sizes, NEW m \in Sizes, NEW r \in Sizes, CallBuiltin(n, m, r) PROVE KeysInv'
  <2>1. "at" \in DOMAIN wrapper' /\ wrapper'.at # "keys" /\ UNCHANGED lastLike
    BY <1>1, Stages DEF CallBuiltin
  <2> QED
    BY <2>1 DEF KeysInv, KeysArePaid
<1>2. CASE RunNative
  <2>1. "at" \in DOMAIN wrapper' /\ wrapper'.at # "keys" /\ UNCHANGED lastLike
    BY <1>2 DEF RunNative, KeysInv
  <2> QED
    BY <2>1 DEF KeysInv, KeysArePaid
<1>3. CASE ChargeAfter
  <2>1. "at" \in DOMAIN wrapper' /\ wrapper'.at # "keys" /\ UNCHANGED lastLike
    BY <1>3, Stages DEF ChargeAfter
  <2> QED
    BY <2>1 DEF KeysInv, KeysArePaid
<1>4. ASSUME NEW n \in Sizes, NEW claim \in Sizes, CallSetLike(n, claim) PROVE KeysInv'
  <2>1. UNCHANGED lastLike /\ n \in Nat /\ claim \in Nat /\ n + claim \in Nat /\ allocGas(n + claim) \in Nat
    BY <1>s, <1>4, Charges DEF CallSetLike
  <2>2. CASE Pays(allocGas(n + claim))
    <3>1. wrapper' = [at |-> "keys", n |-> n, claim |-> claim, walked |-> 0, pending |-> 0,
                      paid |-> allocGas(n + claim)]
      BY <1>4, <2>2 DEF CallSetLike
    <3>2. /\ wrapper' \in LikeRec /\ wrapper'.n = n /\ wrapper'.claim = claim /\ wrapper'.walked = 0
          /\ wrapper'.pending = 0 /\ wrapper'.paid = allocGas(n + claim)
      BY <2>1, <3>1, LikeBegins
    <3>3. "at" \in DOMAIN wrapper'
      BY <3>1
    <3>4. Larger(0 - claim, 0) = 0
      BY <2>1 DEF Larger
    <3> QED
      BY <2>1, <3>2, <3>3, <3>4 DEF KeysInv, Settled, KeysArePaid
  <2>3. CASE ~Pays(allocGas(n + claim))
    <3>1. wrapper' = OutOfGas
      BY <1>4, <2>3 DEF CallSetLike
    <3> QED
      BY <2>1, <3>1, Stages DEF KeysInv, KeysArePaid
  <2> QED
    BY <2>2, <2>3
<1>5. CASE NextKey(2 * TALLY_BATCH + 1)
  <2> DEFINE t == Tally(wrapper)
  <2>1. UNCHANGED lastLike /\ wrapper.at = "keys" /\ wrapper \in LikeRec /\ Settled(wrapper)
    BY <1>5 DEF NextKey, KeysInv
  <2>2. /\ wrapper' = IF Pays(t.due)
                      THEN [wrapper EXCEPT !.walked = @ + 1, !.pending = t.pending, !.paid = @ + t.due]
                      ELSE OutOfGas
    BY <1>5 DEF NextKey
  <2>3. /\ t.pending \in Nat /\ t.due \in Nat
        /\ wrapper.walked + 1 <= wrapper.claim => t.pending = wrapper.pending /\ t.due = 0
        /\ ~(wrapper.walked + 1 <= wrapper.claim) => t.pending + t.due = wrapper.pending + 1
    BY <2>1, TallyFacts
  <2> HIDE DEF t
  <2>4. CASE Pays(t.due)
    <3>1. /\ wrapper' \in LikeRec /\ wrapper'.n = wrapper.n /\ wrapper'.claim = wrapper.claim
          /\ wrapper'.walked = wrapper.walked + 1 /\ wrapper'.pending = t.pending
          /\ wrapper'.paid = wrapper.paid + t.due
      <4>1. wrapper' = [wrapper EXCEPT !.walked = @ + 1, !.pending = t.pending, !.paid = @ + t.due]
        BY <2>2, <2>4
      <4>2. wrapper \in LikeRec /\ t.pending \in Nat /\ t.due \in Nat
        BY <2>1, <2>3
      <4> QED
        <5>1. wrapper' = [at |-> "keys", n |-> wrapper.n, claim |-> wrapper.claim,
                          walked |-> wrapper.walked + 1, pending |-> t.pending,
                          paid |-> wrapper.paid + t.due]
          BY <4>1, <4>2 DEF LikeRec
        <5> QED
          BY <4>2, <5>1, WalkedLike
    <3>2. "at" \in DOMAIN wrapper'
      BY <3>1 DEF LikeRec
    <3>4. Settled(wrapper')
      BY <2>1, <2>3, <3>1, KeyPaid
    <3>5. KeysArePaid'
      BY <2>1 DEF KeysInv, KeysArePaid
    <3> QED
      BY <3>1, <3>2, <3>4, <3>5 DEF KeysInv
  <2>5. CASE ~Pays(t.due)
    <3>1. wrapper' = OutOfGas
      BY <2>2, <2>5
    <3> QED
      BY <2>1, <3>1, Stages DEF KeysInv, KeysArePaid
  <2> QED
    BY <2>4, <2>5
<1>6. CASE KeysEnd
  <2>1. wrapper.at = "keys" /\ wrapper \in LikeRec /\ Settled(wrapper)
    BY <1>6 DEF KeysEnd, KeysInv
  <2>2. "at" \in DOMAIN wrapper' /\ wrapper'.at # "keys"
    BY <1>6, Stages DEF KeysEnd
  <2>3. \/ UNCHANGED lastLike
        \/ lastLike' = [n |-> wrapper.n, claim |-> wrapper.claim, walked |-> wrapper.walked,
                        paid |-> wrapper.paid + wrapper.pending]
    BY <1>6 DEF KeysEnd
  <2>4. KeysArePaid'
    <3>1. CASE UNCHANGED lastLike
      BY <3>1 DEF KeysInv, KeysArePaid
    <3>2. ASSUME NEW l, l = [n |-> wrapper.n, claim |-> wrapper.claim, walked |-> wrapper.walked,
                             paid |-> wrapper.paid + wrapper.pending]
          PROVE  l.paid = allocGas(l.n + l.claim) + Larger(l.walked - l.claim, 0)
      BY <2>1, <3>2 DEF Settled
    <3> QED
      BY <2>3, <3>1, <3>2 DEF KeysArePaid
  <2> QED
    BY <2>2, <2>4 DEF KeysInv
<1>7. CASE UNCHANGED meterVars
  BY <1>7 DEF meterVars, KeysInv, KeysArePaid
<1> QED
  BY <1>1, <1>2, <1>3, <1>4, <1>5, <1>6, <1>7 DEF MetersNext

\* Between two calls, and after a fault, nothing is owed.
LEMMA CoveredIdle ==
  ASSUME NEW e, e.at = "none" \/ e.at = "fault", NEW work \in Nat, NEW credit \in Nat, work <= credit
  PROVE  CallCovered(e, work, credit)
BY DEF CallCovered, Owed

\* Before a call nothing is owed.
LEMMA CoveredNone ==
  ASSUME NEW work \in Nat, NEW credit \in Nat, CallCovered(NoCall, work, credit)
  PROVE  work <= credit
BY Stages DEF CallCovered, Owed

\* The first charge is paid, the native has not run.
LEMMA CoveredNative ==
  ASSUME NEW work \in Nat, NEW credit \in Nat, work <= credit, NEW m, Paid(m), NEW b \in BOOLEAN, NEW e,
         e = [at |-> "native", static |-> b, after |-> m.after, work |-> m.work]
  PROVE  CallCovered(e, work, (credit + FreeWork) + m.before)
<1>1. /\ m.before \in Nat /\ m.after \in Nat /\ m.work \in Nat /\ FreeWork \in Nat
      /\ m.work <= m.before + m.after + FreeWork
  BY Charges DEF Paid
<1>2. e \in NativeRec /\ e.at = "native" /\ e.after = m.after /\ e.work = m.work
  BY <1>1, NativeCall
<1>3. Owed(e) = 0
  BY <1>2 DEF Owed
<1>4. work + m.work <= ((credit + FreeWork) + m.before) + m.after /\ work <= ((credit + FreeWork) + m.before) + 0
  BY <1>1
<1> QED
  BY <1>2, <1>3, <1>4 DEF CallCovered

\* The native has run, the result is not charged yet.
LEMMA CoveredRan ==
  ASSUME NEW c, c.at = "native", NEW work \in Nat, NEW credit \in Nat, CallCovered(c, work, credit), NEW e,
         e = [c EXCEPT !.at = "after"]
  PROVE  c \in NativeRec /\ c.work \in Nat /\ CallCovered(e, work + c.work, credit)
<1>1. c \in NativeRec /\ work + c.work <= credit + c.after /\ work <= credit
  BY DEF CallCovered, Owed
<1>2. c.work \in Nat /\ c.after \in Nat
  BY <1>1 DEF NativeRec
<1>3. e \in NativeRec /\ e.at = "after" /\ e.after = c.after /\ e.work = c.work
  BY <1>1, NativeRan
<1>4. Owed(e) = c.work
  BY <1>3 DEF Owed
<1>5. work + c.work <= credit + c.work
  BY <1>1, <1>2
<1> QED
  BY <1>1, <1>2, <1>3, <1>4, <1>5 DEF CallCovered

\* Then the charge for the result, or the work itself, makes up for it.
LEMMA CoveredAfter ==
  ASSUME NEW c, c.at = "after", NEW work \in Nat, NEW credit \in Nat, CallCovered(c, work, credit)
  PROVE  /\ c.work \in Nat /\ c.after \in Nat
         /\ work <= credit + c.after /\ work <= credit + c.work
<1>1. c \in NativeRec /\ work <= credit + c.after /\ work <= credit + c.work
  BY DEF CallCovered, Owed
<1> QED
  BY <1>1 DEF NativeRec

\* A walk begins: claim and receiver are paid, but for one unit.
LEMMA CoveredLike ==
  ASSUME NEW work \in Nat, NEW credit \in Nat, work <= credit, NEW n \in Nat, NEW claim \in Nat, NEW e,
         e = [at |-> "keys", n |-> n, claim |-> claim, walked |-> 0, pending |-> 0,
              paid |-> allocGas(n + claim)]
  PROVE  CallCovered(e, work, (credit + FreeWork) + allocGas(n + claim))
<1>1. /\ allocGas(n + claim) \in Nat /\ n + claim <= allocGas(n + claim) + 1
      /\ FreeWork \in Nat /\ 2 <= FreeWork
  <2>1. n + claim \in Nat
    OBVIOUS
  <2> QED
    BY <2>1, Charges
<1>2. e \in LikeRec /\ e.at = "keys" /\ e.n = n /\ e.claim = claim /\ e.walked = 0 /\ e.pending = 0
  BY <1>1, LikeBegins
<1>3. Owed(e) = 0
  BY <1>2 DEF Owed
<1>4. Larger(claim - 0, 0) = claim
  BY DEF Larger
<1>5. /\ (work + n) + claim <= ((credit + FreeWork) + allocGas(n + claim)) + 0
      /\ work <= ((credit + FreeWork) + allocGas(n + claim)) + 0
  BY <1>1
<1> QED
  BY <1>2, <1>3, <1>4, <1>5 DEF CallCovered

\* During a walk what is pending makes up for it.
LEMMA CoveredKeys ==
  ASSUME NEW c \in LikeRec, NEW work \in Nat, NEW credit \in Nat, CallCovered(c, work, credit)
  PROVE  /\ work + c.n <= credit + c.pending /\ work <= credit + c.pending
         /\ (work + c.n) + Larger(c.claim - c.walked, 0) <= credit + c.pending
<1>1. c.at = "keys"
  BY DEF LikeRec
<1>2. (work + c.n) + Larger(c.claim - c.walked, 0) <= credit + c.pending
  BY <1>1 DEF CallCovered
<1>3. Larger(c.claim - c.walked, 0) \in Nat
  BY LikeNat DEF Larger
<1> QED
  BY <1>2, <1>3, LikeNat

\* One key more.
LEMMA CoveredKey ==
  ASSUME NEW c \in LikeRec, NEW e \in LikeRec, NEW p \in Nat, NEW d \in Nat,
         c.walked + 1 <= c.claim => p = c.pending /\ d = 0,
         ~(c.walked + 1 <= c.claim) => p + d = c.pending + 1,
         e.n = c.n, e.claim = c.claim, e.walked = c.walked + 1, e.pending = p,
         NEW work \in Nat, NEW credit \in Nat, CallCovered(c, work, credit)
  PROVE  CallCovered(e, work + 1, credit + d)
<1>1. c.n \in Nat /\ c.claim \in Nat /\ c.walked \in Nat /\ c.pending \in Nat
  BY LikeNat
<1>2. (work + c.n) + Larger(c.claim - c.walked, 0) <= credit + c.pending
  BY CoveredKeys
<1>3. ((work + 1) + c.n) + Larger(c.claim - (c.walked + 1), 0) <= (credit + d) + p
  BY <1>1, <1>2 DEF Larger
<1>4. Larger(c.claim - (c.walked + 1), 0) \in Nat
  BY <1>1 DEF Larger
<1>5. work + 1 <= (credit + d) + p
  BY <1>1, <1>3, <1>4
<1>6. e.at = "keys" /\ Owed(e) = p
  <2>1. e.at = "keys"
    BY DEF LikeRec
  <2> QED
    BY <2>1 DEF Owed
<1> QED
  BY <1>3, <1>5, <1>6 DEF CallCovered

\* A call begins: one more free part, and what it charges at first.
LEMMA NewCall ==
  ASSUME Counts, callsLeft > 0, callsLeft' = callsLeft - 1, NEW x \in Nat, Charge(x),
         UNCHANGED <<nativeWork, unpaid>>
  PROVE  /\ Counts'
         /\ \E credit, now \in Nat : /\ credit = Credit /\ now = Credit' /\ credit <= now
                                     /\ Pays(x) => now = (credit + FreeWork) + x
<1>1. callsLeft \in 0 .. MaxCalls /\ gasLeft \in Nat /\ gasPaid \in Nat /\ unpaid \in Nat /\ nativeWork \in Nat
  BY DEF Counts
<1>2. gasLeft' \in Nat /\ gasPaid' \in Nat /\ gasPaid <= gasPaid' /\ (Pays(x) => gasPaid' = gasPaid + x)
  BY <1>1, ChargeStep
<1> PICK g \in Nat : g = gasPaid'
  BY <1>2
<1>g. gasPaid <= g /\ (Pays(x) => g = gasPaid + x)
  BY <1>2, Zenon
<1> DEFINE old == FreeWork * (MaxCalls - callsLeft)
           new == FreeWork * (MaxCalls - (callsLeft - 1))
<1>3. old \in Nat /\ new = old + FreeWork /\ FreeWork \in Nat
  BY <1>1, FreeStep, Charges
<1>4. Credit = (gasPaid + old) + unpaid
  BY DEF Credit
<1>5. Credit' = (g + new) + unpaid
  BY DEF Credit
<1> HIDE DEF old, new
<1>6. Counts'
  <2>1. callsLeft' \in 0 .. MaxCalls
    BY <1>1, CallsAssumption
  <2> QED
    BY <1>1, <1>2, <2>1 DEF Counts
<1>a. gasPaid \in Nat /\ unpaid \in Nat /\ old \in Nat /\ new \in Nat /\ gasPaid <= g /\ old <= new
  BY <1>1, <1>g, <1>3
<1>b. \A p, q, o, w, v \in Nat :
         p <= q /\ o <= w => (p + o) + v \in Nat /\ (p + o) + v <= (q + w) + v /\ (q + w) + v \in Nat
  OBVIOUS
<1>7. /\ (gasPaid + old) + unpaid \in Nat /\ (g + new) + unpaid \in Nat
      /\ (gasPaid + old) + unpaid <= (g + new) + unpaid
  BY <1>a, <1>b, Zenon
<1>8. Pays(x) => (g + new) + unpaid = (((gasPaid + old) + unpaid) + FreeWork) + x
  BY <1>1, <1>g, <1>3
<1> QED
  BY <1>4, <1>5, <1>6, <1>7, <1>8, Zenon

\* A call charges; what it must leave unpaid is counted.
LEMMA SameCall ==
  ASSUME Counts, UNCHANGED callsLeft, NEW x \in Nat, Charge(x), NEW w \in Nat, nativeWork' = nativeWork + w,
         NEW u \in Nat, unpaid' = unpaid + u
  PROVE  /\ Counts'
         /\ \E credit, now \in Nat : /\ credit = Credit /\ now = Credit' /\ credit + u <= now
                                     /\ Pays(x) => now = (credit + x) + u
<1>1. callsLeft \in 0 .. MaxCalls /\ gasLeft \in Nat /\ gasPaid \in Nat /\ unpaid \in Nat /\ nativeWork \in Nat
  BY DEF Counts
<1>2. gasLeft' \in Nat /\ gasPaid' \in Nat /\ gasPaid <= gasPaid' /\ (Pays(x) => gasPaid' = gasPaid + x)
  BY <1>1, ChargeStep
<1> PICK g \in Nat : g = gasPaid'
  BY <1>2
<1>g. gasPaid <= g /\ (Pays(x) => g = gasPaid + x)
  BY <1>2, Zenon
<1> DEFINE old == FreeWork * (MaxCalls - callsLeft)
<1>3. old \in Nat
  BY <1>1, ProductNat, Charges, CallsAssumption
<1>4. Credit = (gasPaid + old) + unpaid
  BY DEF Credit
<1>5. Credit' = (g + old) + (unpaid + u)
  BY DEF Credit
<1> HIDE DEF old
<1>6. Counts'
  <2>1. nativeWork' \in Nat /\ unpaid' \in Nat
    BY <1>1
  <2> QED
    BY <1>1, <1>2, <2>1 DEF Counts
<1>b. \A p, q, o, v, z \in Nat :
         p <= q => /\ (p + o) + v \in Nat /\ ((p + o) + v) + z <= (q + o) + (v + z)
                   /\ (q + o) + (v + z) \in Nat
  OBVIOUS
<1>7. /\ (gasPaid + old) + unpaid \in Nat /\ (g + old) + (unpaid + u) \in Nat
      /\ ((gasPaid + old) + unpaid) + u <= (g + old) + (unpaid + u)
  BY <1>1, <1>3, <1>g, <1>b, Zenon
<1>8. Pays(x) => (g + old) + (unpaid + u) = (((gasPaid + old) + unpaid) + x) + u
  BY <1>1, <1>g, <1>3
<1> QED
  BY <1>4, <1>5, <1>6, <1>7, <1>8, Zenon

\* A built-in is called: its first charge and its free part cover its work, but
\* for what it charges afterwards.
LEMMA CallBuiltinWork ==
  ASSUME gates = AllGates, WorkInv, NEW n \in Nat, NEW m \in Nat, NEW r \in Nat, CallBuiltin(n, m, r)
  PROVE  WorkInv'
<1>1. PICK name \in DOMAIN Meters(AllGates, n, m, r) :
         /\ Charge(Meters(AllGates, n, m, r)[name].before)
         /\ wrapper' = IF Pays(Meters(AllGates, n, m, r)[name].before)
                       THEN [at |-> "native", static |-> name = "objStatic",
                             after |-> Meters(AllGates, n, m, r)[name].after,
                             work |-> Meters(AllGates, n, m, r)[name].work]
                       ELSE OutOfGas
  BY DEF CallBuiltin
<1> DEFINE meter == Meters(AllGates, n, m, r)[name]
           b == name = "objStatic"
<1>2. Paid(meter)
  BY MetersPay
<1>3. /\ Charge(meter.before)
      /\ wrapper' = IF Pays(meter.before)
                    THEN [at |-> "native", static |-> b, after |-> meter.after, work |-> meter.work]
                    ELSE OutOfGas
      /\ b \in BOOLEAN
  BY <1>1
<1> HIDE DEF meter, b
<1>4. /\ wrapper = NoCall /\ callsLeft > 0 /\ callsLeft' = callsLeft - 1
      /\ UNCHANGED <<nativeWork, unpaid>>
  BY DEF CallBuiltin
<1>5. meter.before \in Nat
  BY <1>2 DEF Paid
<1>6. Counts /\ nativeWork \in Nat /\ CallCovered(NoCall, nativeWork, Credit)
  BY <1>4 DEF WorkInv, Counts
<1>7. /\ Counts'
      /\ \E credit, now \in Nat : /\ credit = Credit /\ now = Credit' /\ credit <= now
                                  /\ Pays(meter.before) => now = (credit + FreeWork) + meter.before
  BY <1>3, <1>4, <1>5, <1>6, NewCall
<1>8. PICK credit \in Nat, now \in Nat :
         /\ credit = Credit /\ now = Credit' /\ credit <= now
         /\ Pays(meter.before) => now = (credit + FreeWork) + meter.before
  BY <1>7
<1>9. nativeWork <= credit
  BY <1>6, <1>8, CoveredNone
<1>e. PICK e : e = wrapper'
  OBVIOUS
<1>w. PICK work \in Nat : work = nativeWork /\ nativeWork' = nativeWork
  BY <1>4, <1>6
<1>10. work = nativeWork /\ e = wrapper' /\ nativeWork' = nativeWork
  BY <1>e, <1>w
<1>11. CallCovered(e, work, now)
  <2>1. CASE Pays(meter.before)
    BY <1>2, <1>3, <1>8, <1>9, <1>10, <2>1, CoveredNative
  <2>2. CASE ~Pays(meter.before)
    <3>1. e.at = "fault" /\ work <= now
      BY <1>3, <1>8, <1>9, <1>10, <2>2, Stages
    <3> QED
      BY <3>1, CoveredIdle
  <2> QED
    BY <2>1, <2>2
<1> QED
  BY <1>7, <1>8, <1>10, <1>11, Zenon DEF WorkInv

\* The native has run.
LEMMA RunNativeWork ==
  ASSUME WorkInv, RunNative
  PROVE  WorkInv'
<1>1. /\ wrapper.at = "native" /\ nativeWork' = nativeWork + wrapper.work
      /\ wrapper' = [wrapper EXCEPT !.at = "after"]
      /\ UNCHANGED <<gasLeft, gasPaid, unpaid, callsLeft>>
  BY DEF RunNative
<1>2. nativeWork \in Nat /\ Credit \in Nat /\ CallCovered(wrapper, nativeWork, Credit)
  BY CreditNat DEF WorkInv, Counts
<1>3. wrapper.work \in Nat /\ CallCovered([wrapper EXCEPT !.at = "after"], nativeWork + wrapper.work, Credit)
  BY <1>1, <1>2, CoveredRan
<1>4. Credit' = Credit
  BY <1>1 DEF Credit
<1>5. nativeWork' \in Nat
  BY <1>1, <1>2, <1>3
<1>6. Counts'
  BY <1>1, <1>5 DEF Counts, WorkInv
<1>7. CallCovered(wrapper', nativeWork', Credit')
  BY <1>1, <1>3, <1>4, Zenon
<1> QED
  BY <1>6, <1>7 DEF WorkInv

\* The charge for the result: it is paid, or the call's work is counted as unpaid.
LEMMA ChargeAfterWork ==
  ASSUME WorkInv, ChargeAfter
  PROVE  WorkInv'
<1> DEFINE u == IF Pays(wrapper.after) THEN 0 ELSE wrapper.work
<1>1. /\ wrapper.at = "after" /\ Charge(wrapper.after) /\ unpaid' = unpaid + u
      /\ wrapper' = IF Pays(wrapper.after) \/ wrapper.static THEN NoCall ELSE OutOfGas
      /\ UNCHANGED <<nativeWork, callsLeft>>
  BY DEF ChargeAfter
<1>2. Counts /\ nativeWork \in Nat /\ Credit \in Nat /\ CallCovered(wrapper, nativeWork, Credit)
  BY CreditNat DEF WorkInv, Counts
<1>3. /\ wrapper.after \in Nat /\ wrapper.work \in Nat
      /\ nativeWork <= Credit + wrapper.after /\ nativeWork <= Credit + wrapper.work
  BY <1>1, <1>2, CoveredAfter
<1>4. u \in Nat /\ (Pays(wrapper.after) => u = 0) /\ (~Pays(wrapper.after) => u = wrapper.work)
  BY <1>3
<1> HIDE DEF u
<1>5. nativeWork' = nativeWork + 0 /\ 0 \in Nat
  BY <1>1, <1>2
<1>6. /\ Counts'
      /\ \E credit, now \in Nat : /\ credit = Credit /\ now = Credit' /\ credit + u <= now
                                  /\ Pays(wrapper.after) => now = (credit + wrapper.after) + u
  BY <1>1, <1>2, <1>3, <1>4, <1>5, SameCall
<1>7. PICK credit \in Nat, now \in Nat :
         /\ credit = Credit /\ now = Credit' /\ credit + u <= now
         /\ Pays(wrapper.after) => now = (credit + wrapper.after) + u
  BY <1>6
<1>8. nativeWork <= credit + wrapper.after /\ nativeWork <= credit + wrapper.work
  BY <1>3, <1>7, Zenon
<1>9. nativeWork <= now
  <2>1. \A k, c, n, a, w \in Nat :
           /\ k <= c + a /\ n = (c + a) + 0 => k <= n
           /\ k <= c + w /\ c + w <= n => k <= n
    OBVIOUS
  <2> QED
    BY <1>2, <1>3, <1>4, <1>7, <1>8, <2>1, Zenon
<1>10. wrapper'.at = "none" \/ wrapper'.at = "fault"
  BY <1>1, Stages
<1>11. CallCovered(wrapper', nativeWork, now)
  BY <1>2, <1>9, <1>10, CoveredIdle
<1> QED
  BY <1>1, <1>6, <1>7, <1>11, Zenon DEF WorkInv

\* A set-like argument: its claim is charged before the walk.
LEMMA CallSetLikeWork ==
  ASSUME WorkInv, NEW n \in Nat, NEW claim \in Nat, CallSetLike(n, claim)
  PROVE  WorkInv'
<1> DEFINE x == allocGas(n + claim)
<1>1. /\ Charge(x) /\ wrapper = NoCall /\ callsLeft > 0 /\ callsLeft' = callsLeft - 1
      /\ UNCHANGED <<nativeWork, unpaid>>
      /\ wrapper' = IF Pays(x)
                    THEN [at |-> "keys", n |-> n, claim |-> claim, walked |-> 0, pending |-> 0, paid |-> x]
                    ELSE OutOfGas
  BY DEF CallSetLike
<1>2. x \in Nat
  <2>1. n + claim \in Nat
    OBVIOUS
  <2> QED
    BY <2>1, Charges
<1>3. Counts /\ nativeWork \in Nat /\ CallCovered(NoCall, nativeWork, Credit)
  BY <1>1 DEF WorkInv, Counts
<1> HIDE DEF x
<1>4. /\ Counts'
      /\ \E credit, now \in Nat : /\ credit = Credit /\ now = Credit' /\ credit <= now
                                  /\ Pays(x) => now = (credit + FreeWork) + x
  BY <1>1, <1>2, <1>3, NewCall
<1>5. PICK credit \in Nat, now \in Nat :
         /\ credit = Credit /\ now = Credit' /\ credit <= now /\ (Pays(x) => now = (credit + FreeWork) + x)
  BY <1>4
<1>6. nativeWork <= credit
  BY <1>3, <1>5, CoveredNone
<1>e. PICK e : e = wrapper'
  OBVIOUS
<1>w. PICK work \in Nat : work = nativeWork /\ nativeWork' = nativeWork
  BY <1>1, <1>3
<1>7. work = nativeWork /\ e = wrapper' /\ nativeWork' = nativeWork
  BY <1>e, <1>w
<1>8. CallCovered(e, work, now)
  <2>1. CASE Pays(x)
    <3>1. e = [at |-> "keys", n |-> n, claim |-> claim, walked |-> 0, pending |-> 0,
               paid |-> allocGas(n + claim)]
      BY <1>1, <1>7, <2>1 DEF x
    <3>2. now = (credit + FreeWork) + allocGas(n + claim) /\ work <= credit
      BY <1>5, <1>6, <1>7, <2>1 DEF x
    <3> QED
      BY <3>1, <3>2, CoveredLike
  <2>2. CASE ~Pays(x)
    <3>1. e.at = "fault" /\ work <= now
      BY <1>1, <1>5, <1>6, <1>7, <2>2, Stages
    <3> QED
      BY <3>1, CoveredIdle
  <2> QED
    BY <2>1, <2>2
<1> QED
  BY <1>4, <1>5, <1>7, <1>8, Zenon DEF WorkInv

\* One key more: within the claim, beyond it, or one that completes a batch.
LEMMA NextKeyWork ==
  ASSUME KeysInv, WorkInv, NEW most, NextKey(most)
  PROVE  WorkInv'
<1> DEFINE t == Tally(wrapper)
           w == IF Pays(t.due) THEN 1 ELSE 0
           u == IF Pays(t.due) THEN 0 ELSE t.due - 1
<1>1. /\ wrapper.at = "keys" /\ Charge(t.due) /\ nativeWork' = nativeWork + w /\ unpaid' = unpaid + u
      /\ UNCHANGED callsLeft
      /\ wrapper' = IF Pays(t.due)
                    THEN [wrapper EXCEPT !.walked = @ + 1, !.pending = t.pending, !.paid = @ + t.due]
                    ELSE OutOfGas
  BY DEF NextKey
<1>2. wrapper \in LikeRec
  BY <1>1 DEF KeysInv
<1>3. /\ t.pending \in Nat /\ t.due \in Nat
      /\ wrapper.walked + 1 <= wrapper.claim => t.pending = wrapper.pending /\ t.due = 0
      /\ ~(wrapper.walked + 1 <= wrapper.claim) => t.pending + t.due = wrapper.pending + 1
      /\ 0 < t.due => t.pending = 0 /\ t.due = wrapper.pending + 1
  BY <1>2, TallyFacts
<1> HIDE DEF t
<1>4. Counts /\ nativeWork \in Nat /\ gasLeft \in Nat /\ gasPaid \in Nat /\ CallCovered(wrapper, nativeWork, Credit)
  BY DEF WorkInv, Counts
<1>5. ~Pays(t.due) => 0 < t.due
  BY <1>3, <1>4 DEF Pays
<1>6. wrapper.pending \in Nat
  BY <1>2, LikeNat
<1>7. w \in Nat /\ u \in Nat /\ (Pays(t.due) => w = 1 /\ u = 0) /\ (~Pays(t.due) => w = 0 /\ u = wrapper.pending)
  BY <1>3, <1>5, <1>6
<1> HIDE DEF w, u
<1>8. /\ Counts'
      /\ \E credit, now \in Nat : /\ credit = Credit /\ now = Credit' /\ credit + u <= now
                                  /\ Pays(t.due) => now = (credit + t.due) + u
  BY <1>1, <1>3, <1>4, <1>7, SameCall
<1>9. PICK credit \in Nat, now \in Nat :
         /\ credit = Credit /\ now = Credit' /\ credit + u <= now
         /\ Pays(t.due) => now = (credit + t.due) + u
  BY <1>8
<1>10. CallCovered(wrapper, nativeWork, credit)
  BY <1>4, <1>9, Zenon
<1>11. CallCovered(wrapper', nativeWork + w, now)
  <2>1. CASE Pays(t.due)
    <3>1. wrapper' = [wrapper EXCEPT !.walked = @ + 1, !.pending = t.pending, !.paid = @ + t.due]
      BY <1>1, <2>1
    <3>2. wrapper' = [at |-> "keys", n |-> wrapper.n, claim |-> wrapper.claim,
                      walked |-> wrapper.walked + 1, pending |-> t.pending,
                      paid |-> wrapper.paid + t.due]
      BY <1>2, <3>1 DEF LikeRec
    <3>3. /\ wrapper' \in LikeRec /\ wrapper'.n = wrapper.n /\ wrapper'.claim = wrapper.claim
          /\ wrapper'.walked = wrapper.walked + 1 /\ wrapper'.pending = t.pending
      BY <1>2, <1>3, <3>2, WalkedLike
    <3>4. CallCovered(wrapper', nativeWork + 1, credit + t.due)
      BY <1>2, <1>3, <1>4, <1>10, <3>3, CoveredKey
    <3>5. w = 1 /\ now = credit + t.due
      <4>1. now = (credit + t.due) + u /\ u = 0 /\ w = 1
        BY <1>7, <1>9, <2>1
      <4>2. \A a, b \in Nat : (a + b) + 0 = a + b
        OBVIOUS
      <4> QED
        BY <1>3, <4>1, <4>2, Zenon
    <3> QED
      BY <3>4, <3>5, Zenon
  <2>2. CASE ~Pays(t.due)
    <3>1. wrapper'.at = "fault"
      BY <1>1, <2>2, Stages
    <3>2. nativeWork <= credit + wrapper.pending
      BY <1>2, <1>4, <1>10, CoveredKeys
    <3>3. w = 0 /\ u = wrapper.pending
      BY <1>7, <2>2
    <3>4. nativeWork + w \in Nat /\ nativeWork + w <= now
      <4>1. \A k, c, p, n \in Nat : k <= c + p /\ c + p <= n => k + 0 \in Nat /\ k + 0 <= n
        OBVIOUS
      <4> QED
        BY <1>4, <1>6, <1>9, <3>2, <3>3, <4>1, Zenon
    <3> QED
      BY <3>1, <3>4, CoveredIdle
  <2> QED
    BY <2>1, <2>2
<1> QED
  BY <1>1, <1>8, <1>9, <1>11, Zenon DEF WorkInv

\* The walk is over: what is pending is charged, and the receiver has been walked too.
LEMMA KeysEndWork ==
  ASSUME KeysInv, WorkInv, KeysEnd
  PROVE  WorkInv'
<1> DEFINE u == IF Pays(wrapper.pending) THEN 0 ELSE wrapper.pending
<1>1. /\ wrapper.at = "keys" /\ Charge(wrapper.pending) /\ nativeWork' = nativeWork + wrapper.n
      /\ unpaid' = unpaid + u /\ UNCHANGED callsLeft
      /\ wrapper' = IF Pays(wrapper.pending) THEN NoCall ELSE OutOfGas
  BY DEF KeysEnd
<1>2. wrapper \in LikeRec
  BY <1>1 DEF KeysInv
<1>3. wrapper.pending \in Nat /\ wrapper.n \in Nat
  BY <1>2, LikeNat
<1>4. Counts /\ nativeWork \in Nat /\ Credit \in Nat /\ CallCovered(wrapper, nativeWork, Credit)
  BY CreditNat DEF WorkInv, Counts
<1>5. u \in Nat /\ (Pays(wrapper.pending) => u = 0) /\ (~Pays(wrapper.pending) => u = wrapper.pending)
  BY <1>3
<1> HIDE DEF u
<1>6. /\ Counts'
      /\ \E credit, now \in Nat : /\ credit = Credit /\ now = Credit' /\ credit + u <= now
                                  /\ Pays(wrapper.pending) => now = (credit + wrapper.pending) + u
  BY <1>1, <1>3, <1>4, <1>5, SameCall
<1>7. PICK credit \in Nat, now \in Nat :
         /\ credit = Credit /\ now = Credit' /\ credit + u <= now
         /\ Pays(wrapper.pending) => now = (credit + wrapper.pending) + u
  BY <1>6
<1>8. CallCovered(wrapper, nativeWork, credit)
  BY <1>4, <1>7, Zenon
<1>9. nativeWork + wrapper.n <= credit + wrapper.pending
  BY <1>2, <1>4, <1>8, CoveredKeys
<1>10. nativeWork + wrapper.n \in Nat /\ nativeWork + wrapper.n <= now
  <2>1. \A k, c, p, n, v \in Nat :
           /\ k + v \in Nat
           /\ k + v <= c + p /\ n = (c + p) + 0 => k + v <= n
           /\ k + v <= c + p /\ c + p <= n => k + v <= n
    OBVIOUS
  <2> QED
    BY <1>3, <1>4, <1>5, <1>7, <1>9, <2>1, Zenon
<1>11. wrapper'.at = "none" \/ wrapper'.at = "fault"
  BY <1>1, Stages
<1>12. CallCovered(wrapper', nativeWork + wrapper.n, now)
  BY <1>10, <1>11, CoveredIdle
<1> QED
  BY <1>1, <1>6, <1>7, <1>12, Zenon DEF WorkInv

\* The gates of an execution do not change.
LEMMA MetersStep == MetersInv /\ [MetersNext]_meterVars => MetersInv'
<1> SUFFICES ASSUME MetersInv, [MetersNext]_meterVars PROVE MetersInv'
  OBVIOUS
<1>1. KeysInv /\ KeysInv'
  BY KeysStep DEF MetersInv
<1>2. gates' = gates
  BY DEF MetersNext, meterVars, CallBuiltin, RunNative, ChargeAfter, CallSetLike, NextKey, KeysEnd
<1>3. ASSUME gates = AllGates PROVE WorkInv'
  <2>1. WorkInv /\ Sizes \subseteq Nat
    BY <1>3, SizesAssumption DEF MetersInv
  <2>2. ASSUME NEW n \in Sizes, NEW m \in Sizes, NEW r \in Sizes, CallBuiltin(n, m, r) PROVE WorkInv'
    BY <1>3, <2>1, <2>2, CallBuiltinWork
  <2>3. CASE RunNative
    BY <2>1, <2>3, RunNativeWork
  <2>4. CASE ChargeAfter
    BY <2>1, <2>4, ChargeAfterWork
  <2>5. ASSUME NEW n \in Sizes, NEW claim \in Sizes, CallSetLike(n, claim) PROVE WorkInv'
    BY <2>1, <2>5, CallSetLikeWork
  <2>6. CASE NextKey(2 * TALLY_BATCH + 1)
    BY <1>1, <2>1, <2>6, NextKeyWork
  <2>7. CASE KeysEnd
    BY <1>1, <2>1, <2>7, KeysEndWork
  <2>8. CASE UNCHANGED meterVars
    <3>1. Counts' /\ Credit' = Credit /\ UNCHANGED <<wrapper, nativeWork>>
      BY <2>1, <2>8 DEF meterVars, WorkInv, Counts, Credit
    <3> QED
      BY <2>1, <3>1 DEF WorkInv
  <2> QED
    BY <2>2, <2>3, <2>4, <2>5, <2>6, <2>7, <2>8 DEF MetersNext
<1> QED
  BY <1>1, <1>2, <1>3 DEF MetersInv

\* Past every gate the natives' work is bounded by the gas, through any calls of the
\* 32 wrapped built-ins with any sizes, any budget, any batch and any threshold; and
\* with or without the gates a set-like argument is charged by what it claimed and
\* yielded (harness_part_1.js to _5.js, per_element_meter.js).
THEOREM WorkOfBuiltinsPaid == MetersSpec => []BuiltinsPaid
<1>1. MetersInit => MetersInv
  <2> SUFFICES ASSUME MetersInit PROVE MetersInv
    OBVIOUS
  <2>1. KeysInv
    <3>1. "at" \in DOMAIN wrapper /\ wrapper.at # "keys"
      BY Stages DEF MetersInit
    <3>2. ASSUME NEW l, l = [n |-> 0, claim |-> 0, walked |-> 0, paid |-> 0]
          PROVE  l.paid = allocGas(l.n + l.claim) + Larger(l.walked - l.claim, 0)
      BY <3>2 DEF allocGas, Larger
    <3> QED
      BY <3>1, <3>2 DEF KeysInv, KeysArePaid, MetersInit
  <2>2. Counts
    BY SizesAssumption, CallsAssumption DEF MetersInit, Counts
  <2>3. Credit \in Nat /\ nativeWork = 0 /\ wrapper.at = "none"
    BY <2>2, CreditNat, Stages DEF MetersInit
  <2>4. CallCovered(wrapper, nativeWork, Credit)
    <3>1. nativeWork \in Nat /\ nativeWork <= Credit
      BY <2>3
    <3> QED
      BY <2>3, <3>1, CoveredIdle
  <2> QED
    BY <2>1, <2>2, <2>4 DEF MetersInv, WorkInv
<1>2. MetersInv => BuiltinsPaid
  <2> SUFFICES ASSUME MetersInv PROVE BuiltinsPaid
    OBVIOUS
  <2>1. ASSUME gates = AllGates
        PROVE  nativeWork <= gasPaid + FreeWork * (MaxCalls - callsLeft) + Unsettled + unpaid
    <3>1. Counts /\ nativeWork <= Credit + Owed(wrapper)
      BY <2>1 DEF MetersInv, WorkInv, CallCovered
    <3>2. Unsettled = Owed(wrapper)
      BY DEF Unsettled, Owed
    <3>3. Owed(wrapper) \in Nat
      <4>1. wrapper.at = "after" => wrapper.work \in Nat
        BY <2>1 DEF MetersInv, WorkInv, CallCovered, NativeRec
      <4>2. wrapper.at = "keys" => wrapper.pending \in Nat
        BY LikeNat DEF MetersInv, KeysInv
      <4> QED
        BY <4>1, <4>2 DEF Owed
    <3>4. gasPaid \in Nat /\ unpaid \in Nat /\ nativeWork \in Nat
      BY <3>1 DEF Counts
    <3>5. FreeWork * (MaxCalls - callsLeft) \in Nat
      BY <3>1, ProductNat, Charges, CallsAssumption DEF Counts
    <3> QED
      BY <3>1, <3>2, <3>3, <3>4, <3>5 DEF Credit
  <2> QED
    BY <2>1 DEF MetersInv, KeysInv, BuiltinsPaid, WorkIsPaid
<1> QED
  BY <1>1, <1>2, MetersStep, PTL DEF MetersSpec

\* Both at once: what the natives behind the wrappers walk or build is charged, and
\* the harness leaves no trace of how it measured (harness_part_1.js to _5.js,
\* per_element_meter.js).  The two machines share no state.
THEOREM NativesAreCharged == ProbeSpec /\ MetersSpec => []NativeWorkCharged
<1>1. BuiltinsPaid /\ ProbeLeavesNoTrace /\ WalkIsPaid => NativeWorkCharged
  BY DEF NativeWorkCharged
<1> QED
  BY <1>1, ProbeIsInvisible, WorkOfBuiltinsPaid, PTL

(***************************************************************************)
(* The realm: what each kind of write makes of a slot.                     *)
(***************************************************************************)
Values ==
    {"native", "absent", "undefined", "pinned", "guarded", "safeMath", "ref", "host", "harness",
     "xchain", "contract"}
Props == [value : Values, writable : BOOLEAN, configurable : BOOLEAN]
Realms == [Slots -> Props]

\* A property that nothing changes any more.
IsLocked(p) == ~p.writable /\ ~p.configurable

\* A property as it is made, and as a define locks it.
LEMMA OpenLocked ==
  ASSUME NEW v \in Values
  PROVE  /\ Open(v) \in Props /\ Open(v).value = v /\ Open(v).writable /\ Open(v).configurable
         /\ Locked(v) \in Props /\ Locked(v).value = v /\ IsLocked(Locked(v))
         /\ NoSlot = Open("absent")
BY DEF Open, Locked, Props, IsLocked, NoSlot

\* The value of a property is replaced.
LEMMA ValueSet ==
  ASSUME NEW p \in Props, NEW v \in Values, NEW e, e = [p EXCEPT !.value = v]
  PROVE  e \in Props /\ e.value = v /\ e.writable = p.writable /\ e.configurable = p.configurable
BY DEF Props

\* A write to an open property leaves it open.
LEMMA OpenSet ==
  ASSUME NEW w, NEW v, NEW e, e = [Open(w) EXCEPT !.value = v]
  PROVE  e = Open(v)
BY DEF Open

\* An assignment reaches what is writable.
LEMMA AssignedIs ==
  ASSUME NEW r \in Realms, NEW X, NEW v \in Values
  PROVE  /\ Assigned(r, X, v) \in Realms
         /\ \A s \in Slots : /\ s \notin X \/ ~r[s].writable => Assigned(r, X, v)[s] = r[s]
                             /\ Assigned(r, X, v)[s].configurable = r[s].configurable
                             /\ Assigned(r, X, v)[s].writable = r[s].writable
                             /\ s \in X /\ r[s].writable => Assigned(r, X, v)[s].value = v
                             /\ s \in X /\ r[s] = Open(r[s].value) => Assigned(r, X, v)[s] = Open(v)
<1>1. ASSUME NEW s \in Slots
      PROVE  /\ (IF s \in X /\ r[s].writable THEN [r[s] EXCEPT !.value = v] ELSE r[s]) \in Props
             /\ Assigned(r, X, v)[s] = IF s \in X /\ r[s].writable THEN [r[s] EXCEPT !.value = v] ELSE r[s]
  BY ValueSet DEF Realms, Assigned
<1>2. Assigned(r, X, v) \in Realms
  BY <1>1 DEF Realms, Assigned
<1>3. ASSUME NEW s \in Slots
      PROVE  /\ s \notin X \/ ~r[s].writable => Assigned(r, X, v)[s] = r[s]
             /\ Assigned(r, X, v)[s].configurable = r[s].configurable
             /\ Assigned(r, X, v)[s].writable = r[s].writable
             /\ s \in X /\ r[s].writable => Assigned(r, X, v)[s].value = v
             /\ s \in X /\ r[s] = Open(r[s].value) => Assigned(r, X, v)[s] = Open(v)
  <2>1. r[s] \in Props
    BY DEF Realms
  <2>2. PICK e : e = [r[s] EXCEPT !.value = v]
    OBVIOUS
  <2>3. e \in Props /\ e.value = v /\ e.writable = r[s].writable /\ e.configurable = r[s].configurable
    BY <2>1, <2>2, ValueSet
  <2>4. r[s] = Open(r[s].value) => r[s].writable /\ e = Open(v)
    <3> HAVE r[s] = Open(r[s].value)
    <3>1. r[s].writable
      BY <2>1, OpenLocked DEF Props
    <3>2. e = [Open(r[s].value) EXCEPT !.value = v]
      BY <2>2, Zenon
    <3> QED
      BY <3>1, <3>2, OpenSet
  <2>5. Assigned(r, X, v)[s] = IF s \in X /\ r[s].writable THEN e ELSE r[s]
    BY <1>1, <2>2, Zenon
  <2> QED
    BY <2>3, <2>4, <2>5
<1> QED
  BY <1>2, <1>3

\* A delete, and a define that takes, reach what is configurable.
LEMMA DeletedIs ==
  ASSUME NEW r \in Realms, NEW X
  PROVE  /\ Deleted(r, X) \in Realms
         /\ \A s \in Slots : /\ s \notin X \/ ~r[s].configurable => Deleted(r, X)[s] = r[s]
                             /\ s \in X /\ r[s].configurable => Deleted(r, X)[s] = Open("absent")
                             /\ r[s].configurable => Deleted(r, X)[s].configurable
<1>1. Open("absent") \in Props /\ NoSlot = Open("absent") /\ Open("absent").configurable
  BY DEF Open, Props, NoSlot, Values
<1>2. ASSUME NEW s \in Slots
      PROVE  Deleted(r, X)[s] = IF s \in X /\ r[s].configurable THEN Open("absent") ELSE r[s]
  BY <1>1 DEF Deleted
<1>3. ASSUME NEW s \in Slots PROVE Deleted(r, X)[s] \in Props
  BY <1>1, <1>2 DEF Realms
<1>4. Deleted(r, X) \in Realms
  BY <1>3 DEF Realms, Deleted
<1> QED
  BY <1>1, <1>2, <1>4

\* A define locks what is configurable and is refused elsewhere.
LEMMA DefinedIs ==
  ASSUME NEW r \in Realms, NEW X, NEW v \in Values
  PROVE  /\ Defined(r, X, v) \in Realms
         /\ \A s \in Slots : /\ s \notin X \/ ~r[s].configurable => Defined(r, X, v)[s] = r[s]
                             /\ s \in X /\ r[s].configurable => Defined(r, X, v)[s] = Locked(v)
<1>1. Locked(v) \in Props
  BY OpenLocked
<1> QED
  BY <1>1 DEF Realms, Defined

\* A neuter is a define as long as Object.defineProperty is there.
LEMMA NeuteredIs ==
  ASSUME NEW r \in Realms, NEW X, NEW v \in Values
  PROVE  /\ Neutered(r, X, v) \in Realms
         /\ \A s \in Slots : /\ s \notin X \/ ~r[s].configurable => Neutered(r, X, v)[s] = r[s]
                             /\ s \in X /\ r[s].configurable /\ r[DefineProperty].value = "native"
                                  => Neutered(r, X, v)[s] = Locked(v)
BY DefinedIs DEF Neutered

(***************************************************************************)
(* Which slots are which.                                                  *)
(***************************************************************************)
PrivateNames ==
    {"__accessors", "__ledger", "__state", "__oracle", "__crossChain", "__staking", "__emit",
     "__math", "__controlFlow", "__logging", "__DEPTH_LIMIT", "__NR_DEPTH_LIMIT",
     "__PKG3_SANDBOX_ON", "__blockTime", "__METERS_ON", "__depth_enter", "__depth_exit",
     "__concat", "__setconcat", "__setconcatL", "__tmpl", "__tmpltag", "__tmpltagm",
     "__arrspread", "__objspread", "__objspreadmeter", "__gas", "__stackFault",
     "__NATIVE_STACK_TERMINAL_ON"}
StrippedGlobals == Global(STRIPPED_GLOBAL_NAMES \cup BIGINT_SURFACE_STRIPPED_GLOBAL_NAMES)
OtherEmptied == Global({"eval", "Function"}) \cup Global({"RegExp"}) \cup HostGlobals \cup Global({"Math"})
Create == <<"Object", "create">>

\* The slots of globals, by name.
LEMMA GlobalIs ==
  /\ \A N, s : s \in Global(N) => s[1] = "global" /\ s[2] \in N
  /\ \A N : \A x \in N : <<"global", x>> \in Global(N)
  /\ \A M, N : Global(M \cup N) = Global(M) \cup Global(N)
BY DEF Global

\* By owner: globals, Error's, and the rest.
LEMMA PrivateIs ==
  ASSUME NEW s \in PrivateGlobals, s # SavedFunction, s # SavedDefine
  PROVE  s[1] = "global" /\ s[2] \in PrivateNames
BY GlobalIs DEF PrivateGlobals, PrivateNames, GatewayRefs, ExecutionValues, DepthHooks, ALLOC_HELPERS, Gas,
   SavedFunction, SavedDefine, StackFault, NativeStackOn

\* What is neutered is no global, and none of what is locked or metered.
LEMMA NeuterIs ==
  ASSUME NEW s \in NeuterSlots
  PROVE  /\ s[1] # "global" /\ s[1] # "Error" /\ s[1] # "Uint8Array" /\ s[1] # "Set" /\ s[1] # "JSON"
         /\ s[2] # "fill" /\ s[2] # "repeat" /\ s[2] # "sort" /\ s[2] # "create"
         /\ s[2] # "defineProperty" /\ s[2] # "defineProperties"
<1>1. CASE s \in FnFamilyTargets
  BY <1>1 DEF FnFamilyTargets, Constructor
<1>2. CASE s \in Constructor(NEUTERED_PROTO_CONSTRUCTORS)
  BY <1>2 DEF NEUTERED_PROTO_CONSTRUCTORS, Constructor
<1>3. CASE s \in STRIPPED_PROTO_METHODS
  BY <1>3 DEF STRIPPED_PROTO_METHODS
<1>4. CASE s \in BIGINT_SURFACE_STRIPPED_PROTO_METHODS
  BY <1>4 DEF BIGINT_SURFACE_STRIPPED_PROTO_METHODS
<1>5. CASE s \in Constructor(BIGINT_SURFACE_NEUTERED_PROTO_CONSTRUCTORS)
  BY <1>5 DEF BIGINT_SURFACE_NEUTERED_PROTO_CONSTRUCTORS, Constructor
<1> QED
  BY <1>1, <1>2, <1>3, <1>4, <1>5 DEF NeuterSlots

\* What the harness meters before it has removed the references, by key.
LEMMA EarlyIs ==
  ASSUME NEW b, NEW s \in EarlyMeters(b)
  PROVE  \/ s[1] = "Array" /\ s[2] = "fill"
         \/ s[1] = "String" /\ s[2] = "repeat"
         \/ s[1] = "global" /\ s[2] \in {"Uint8Array", "Set"}
         \/ s[1] \in {"Uint8Array", "Set"} /\ s[2] = "constructor"
BY DEF EarlyMeters

\* What it meters afterwards.
LEMMA LateIs ==
  ASSUME NEW s \in LateMeters
  PROVE  \/ s[1] = "Array" /\ s[2] = "sort"
         \/ s[1] = "JSON"
BY DEF LateMeters

\* The slots of Error's stacks, by owner.
LEMMA ErrorIs == ASSUME NEW s \in ErrorSlots PROVE s[1] = "Error"
BY DEF ErrorSlots

\* The two slots that redefine properties.
LEMMA DefineIs ==
  ASSUME NEW s \in DefineLocked
  PROVE  s[1] = "Object" /\ s[2] \in {"defineProperty", "defineProperties"}
BY DEF DefineLocked, DefineProperty

\* The globals that are emptied besides the lists.
LEMMA EmptiedIs ==
  ASSUME NEW s \in OtherEmptied
  PROVE  s[1] = "global"
         /\ s[2] \in {"eval", "Function", "RegExp", "console", "process", "require", "importScripts", "Math"}
BY GlobalIs DEF OtherEmptied, HostGlobals

\* The globals of the lists.
LEMMA StrippedIs ==
  ASSUME NEW s \in StrippedGlobals
  PROVE  s[1] = "global" /\ s[2] \in STRIPPED_GLOBAL_NAMES \cup BIGINT_SURFACE_STRIPPED_GLOBAL_NAMES
BY GlobalIs DEF StrippedGlobals

(***************************************************************************)
(* The script of the sandbox, one part after the other.                    *)
(***************************************************************************)
\* A step that leaves every slot outside of X alone.
Only(r, q, X) == q \in Realms /\ \A s \in Slots : s \notin X => q[s] = r[s]

\* Two steps leave what both leave.
LEMMA OnlyTwice ==
  ASSUME NEW r, NEW q, NEW p, NEW X, NEW Y, Only(r, q, X), Only(q, p, Y)
  PROVE  Only(r, p, X \cup Y)
BY DEF Only

\* A step that leaves more alone leaves less alone too.
LEMMA OnlyMore ==
  ASSUME NEW r, NEW q, NEW X, NEW Y, Only(r, q, X), X \subseteq Y
  PROVE  Only(r, q, Y)
BY DEF Only

\* Each kind of write reaches nothing but the slots it is for.
LEMMA OnlyOne ==
  ASSUME NEW r \in Realms, NEW X, NEW v \in Values
  PROVE  /\ Only(r, Assigned(r, X, v), X) /\ Only(r, Deleted(r, X), X)
         /\ Only(r, Defined(r, X, v), X) /\ Only(r, Neutered(r, X, v), X)
BY AssignedIs, DeletedIs, DefinedIs, NeuteredIs DEF Only

\* The values that the script, the host, the harness and the contract write.
LEMMA ValuesAre ==
  /\ "native" \in Values /\ "undefined" \in Values /\ "pinned" \in Values /\ "guarded" \in Values
  /\ "safeMath" \in Values /\ "ref" \in Values /\ "host" \in Values /\ "harness" \in Values
  /\ "xchain" \in Values /\ "contract" \in Values /\ "absent" \in Values
BY DEF Values

\* A delete and an assignment empty the globals that can be deleted.
LEMMA DeleteGlobalsIs ==
  ASSUME NEW r \in Realms, NEW N
  PROVE  /\ Only(r, DeleteGlobals(r, N), Global(N))
         /\ \A s \in Slots : s \in Global(N) /\ r[s].configurable => DeleteGlobals(r, N)[s] = Open("undefined")
<1> DEFINE q == Deleted(r, Global(N))
           p == Assigned(q, Global(N), "undefined")
<1>1. q \in Realms /\ Only(r, q, Global(N))
  <2>1. Only(r, q, Global(N))
    BY OnlyOne, ValuesAre
  <2> QED
    BY <2>1 DEF Only
<1>2. Only(q, p, Global(N))
  BY <1>1, OnlyOne, ValuesAre
<1>3. Only(r, p, Global(N))
  BY <1>1, <1>2 DEF Only
<1>4. ASSUME NEW s \in Slots, s \in Global(N), r[s].configurable PROVE p[s] = Open("undefined")
  <2>1. q[s] = Open("absent")
    BY <1>4, DeletedIs
  <2>2. Open("absent").value = "absent"
    BY OpenLocked, ValuesAre
  <2> HIDE DEF q
  <2> QED
    BY <1>1, <1>4, <2>1, <2>2, AssignedIs, ValuesAre
<1> QED
  BY <1>3, <1>4 DEF DeleteGlobals

FunctionTouched == {SavedFunction} \cup Global({"eval", "Function"}) \cup FnFamilyTargets

\* The constructors of functions are neutered and Function is kept aside.
LEMMA FunctionCtorsIs ==
  ASSUME NEW r \in Realms
  PROVE  /\ Only(r, FunctionCtors(r), FunctionTouched)
         /\ SavedFunction \in Slots /\ r[SavedFunction].configurable => FunctionCtors(r)[SavedFunction].configurable
<1> DEFINE q == Assigned(r, {SavedFunction}, "native")
           p == Assigned(q, Global({"eval", "Function"}), "undefined")
           o == Neutered(p, FnFamilyTargets, "undefined")
<1>1. q \in Realms /\ Only(r, q, {SavedFunction})
  BY OnlyOne, ValuesAre DEF Only
<1>2. p \in Realms /\ Only(q, p, Global({"eval", "Function"}))
  BY <1>1, OnlyOne, ValuesAre DEF Only
<1>3. o \in Realms /\ Only(p, o, FnFamilyTargets)
  BY <1>2, OnlyOne, ValuesAre DEF Only
<1>4. SavedFunction \in Slots /\ r[SavedFunction].configurable => o[SavedFunction].configurable
  <2>1. SavedFunction \notin FnFamilyTargets
    BY NeuterIs DEF SavedFunction, NeuterSlots
  <2>2. SavedFunction \in Slots => q[SavedFunction].configurable = r[SavedFunction].configurable
    BY AssignedIs, ValuesAre
  <2>3. SavedFunction \in Slots => p[SavedFunction].configurable = q[SavedFunction].configurable
    BY <1>1, AssignedIs, ValuesAre
  <2> HIDE DEF p, q, o
  <2> QED
    BY <1>3, <2>1, <2>2, <2>3 DEF Only
<1> HIDE DEF p, q, o
<1>5. Only(r, p, {SavedFunction} \cup Global({"eval", "Function"}))
  BY <1>1, <1>2, OnlyTwice
<1>6. Only(r, o, FunctionTouched)
  BY <1>3, <1>5, OnlyTwice DEF FunctionTouched
<1> QED
  BY <1>4, <1>6 DEF FunctionCtors, o, p, q

BigTouched == Global(BIGINT_SURFACE_STRIPPED_GLOBAL_NAMES) \cup BigIntNeuters

\* The surface of BigInt is emptied and neutered.
LEMMA BigIntSurfaceIs ==
  ASSUME NEW r \in Realms
  PROVE  /\ Only(r, BigIntSurface(r), BigTouched)
         /\ \A s \in Slots : s \in Global(BIGINT_SURFACE_STRIPPED_GLOBAL_NAMES) /\ r[s].configurable
               => BigIntSurface(r)[s] = Open("undefined")
<1> DEFINE q == DeleteGlobals(r, BIGINT_SURFACE_STRIPPED_GLOBAL_NAMES)
           p == Neutered(q, BigIntNeuters, "undefined")
<1>1. q \in Realms /\ Only(r, q, Global(BIGINT_SURFACE_STRIPPED_GLOBAL_NAMES))
  BY DeleteGlobalsIs DEF Only
<1>2. p \in Realms /\ Only(q, p, BigIntNeuters)
  BY <1>1, OnlyOne, ValuesAre DEF Only
<1>3. ASSUME NEW s \in Slots, s \in Global(BIGINT_SURFACE_STRIPPED_GLOBAL_NAMES), r[s].configurable
      PROVE  p[s] = Open("undefined")
  <2>1. q[s] = Open("undefined")
    BY <1>3, DeleteGlobalsIs
  <2>2. s[1] = "global"
    BY <1>3, GlobalIs
  <2>3. s \notin BigIntNeuters
    BY <2>2, NeuterIs DEF BigIntNeuters, NeuterSlots
  <2> HIDE DEF p, q
  <2> QED
    BY <1>2, <2>1, <2>3 DEF Only
<1> HIDE DEF p, q
<1>4. Only(r, p, BigTouched)
  BY <1>1, <1>2, OnlyTwice DEF BigTouched
<1> QED
  BY <1>3, <1>4 DEF BigIntSurface, p, q

SaveTouched == {SavedDefine} \cup DefineLocked \cup {Create}

\* defineProperty is saved, then both ways to redefine are locked for good.
LEMMA SaveAndLockDefineIs ==
  ASSUME NEW r \in Realms, SavedDefine \in Slots, DefineProperty \in Slots
  PROVE  /\ Only(r, SaveAndLockDefine(r), SaveTouched)
         /\ SaveAndLockDefine(r)[SavedDefine].configurable
         /\ \A s \in Slots : s \in DefineLocked /\ r[s].configurable
               => SaveAndLockDefine(r)[s] = Locked("undefined")
<1> DEFINE w == r[DefineProperty].value
           kept == [value |-> w, writable |-> FALSE, configurable |-> TRUE]
           q == [r EXCEPT ![SavedDefine] = kept]
           p == Defined(q, DefineLocked, "undefined")
           o == Defined(p, {Create}, "guarded")
<1>1. kept \in Props /\ kept.configurable
  BY DEF Props, Realms
<1>2. /\ q \in Realms /\ q[SavedDefine] = kept
      /\ \A s \in Slots : s # SavedDefine => q[s] = r[s]
  BY <1>1 DEF Realms
<1> HIDE DEF kept, q
<1>3. Only(r, q, {SavedDefine})
  BY <1>2 DEF Only
<1>4. p \in Realms /\ Only(q, p, DefineLocked)
  BY <1>2, OnlyOne, ValuesAre DEF Only
<1>5. o \in Realms /\ Only(p, o, {Create})
  BY <1>4, OnlyOne, ValuesAre DEF Only
<1>6. SavedDefine \notin DefineLocked /\ SavedDefine # Create
  BY DEF DefineLocked, DefineProperty, SavedDefine, Create
<1>7. Create \notin DefineLocked
  BY DEF DefineLocked, DefineProperty, Create
<1>8. ASSUME NEW s \in Slots, s \in DefineLocked, r[s].configurable PROVE o[s] = Locked("undefined")
  <2>1. q[s] = r[s]
    BY <1>2, <1>6, <1>8
  <2>2. p[s] = Locked("undefined")
    BY <1>2, <1>8, <2>1, DefinedIs, ValuesAre
  <2> HIDE DEF p, o
  <2> QED
    BY <1>5, <1>7, <1>8, <2>2 DEF Only
<1> HIDE DEF p, o
<1>9. o[SavedDefine].configurable
  BY <1>1, <1>2, <1>4, <1>5, <1>6 DEF Only
<1>10. Only(r, o, SaveTouched)
  <2>1. Only(r, p, {SavedDefine} \cup DefineLocked)
    BY <1>3, <1>4, OnlyTwice
  <2> QED
    BY <1>5, <2>1, OnlyTwice DEF SaveTouched
<1>11. SaveAndLockDefine(r) = o
  BY Zenon DEF SaveAndLockDefine, o, p, q, kept, Create
<1> QED
  BY <1>8, <1>9, <1>10, <1>11

\* The slots that the script touches, besides those of BigIntNeuters.
Touched ==
    StrippedGlobals \cup OtherEmptied \cup NeuterSlots \cup ErrorSlots \cup DefineLocked
      \cup {SavedFunction, SavedDefine, Create}

\* Each part of the script touches some of those.
LEMMA TouchedParts ==
  ASSUME NEW b
  PROVE  /\ Global(StrippedNames(b)) \subseteq StrippedGlobals
         /\ FunctionTouched \subseteq Touched /\ BigTouched \subseteq Touched /\ SaveTouched \subseteq Touched
         /\ Constructor(NEUTERED_PROTO_CONSTRUCTORS) \subseteq NeuterSlots
         /\ STRIPPED_PROTO_METHODS \subseteq NeuterSlots /\ BigIntNeuters \subseteq NeuterSlots
         /\ Global({"RegExp"}) \subseteq OtherEmptied /\ HostGlobals \subseteq OtherEmptied
         /\ Global({"Math"}) \subseteq OtherEmptied
         /\ Global(BIGINT_SURFACE_STRIPPED_GLOBAL_NAMES) \subseteq StrippedGlobals
<1>1. Global(StrippedNames(b)) \subseteq StrippedGlobals
  BY DEF Global, StrippedNames, StrippedGlobals
<1>2. Global(BIGINT_SURFACE_STRIPPED_GLOBAL_NAMES) \subseteq StrippedGlobals
  BY DEF Global, StrippedGlobals
<1>3. FunctionTouched \subseteq Touched
  BY DEF FunctionTouched, Touched, OtherEmptied, NeuterSlots
<1>4. BigIntNeuters \subseteq NeuterSlots
  BY DEF BigIntNeuters, NeuterSlots
<1> QED
  BY <1>1, <1>2, <1>3, <1>4 DEF BigTouched, SaveTouched, Touched, NeuterSlots, OtherEmptied

\* The groups of slots do not meet, so no part undoes another's work.
LEMMA TouchedApart ==
  /\ \A s \in StrippedGlobals : s \notin FunctionTouched /\ s \notin NeuterSlots /\ s \notin OtherEmptied
                                /\ s \notin ErrorSlots /\ s \notin SaveTouched
  /\ \A s \in ErrorSlots : s \notin StrippedGlobals /\ s \notin FunctionTouched /\ s \notin NeuterSlots
                           /\ s \notin OtherEmptied /\ s \notin SaveTouched
  /\ \A s \in DefineLocked : s \notin StrippedGlobals /\ s \notin FunctionTouched /\ s \notin NeuterSlots
                             /\ s \notin OtherEmptied /\ s \notin ErrorSlots
  /\ \A s \in {SavedFunction, SavedDefine} :
        s \notin StrippedGlobals /\ s \notin NeuterSlots /\ s \notin OtherEmptied /\ s \notin ErrorSlots
  /\ SavedFunction \notin SaveTouched /\ SavedDefine \notin FunctionTouched
<1>f. \A s \in FunctionTouched : s = SavedFunction \/ s \in OtherEmptied \/ s \in NeuterSlots
  BY DEF FunctionTouched, OtherEmptied, NeuterSlots
<1>t. \A s \in SaveTouched : s = SavedDefine \/ s \in DefineLocked \/ s = Create
  BY DEF SaveTouched
<1>n. /\ SavedFunction[1] = "global" /\ SavedFunction[2] = "__Function"
      /\ SavedDefine[1] = "global" /\ SavedDefine[2] = "__defineProperty" /\ Create[1] = "Object"
      /\ Create[2] = "create"
  BY DEF SavedFunction, SavedDefine, Create
<1>1. ASSUME NEW s \in StrippedGlobals
      PROVE  s \notin FunctionTouched /\ s \notin NeuterSlots /\ s \notin OtherEmptied
             /\ s \notin ErrorSlots /\ s \notin SaveTouched
  <2>1. s[1] = "global" /\ s[2] \in STRIPPED_GLOBAL_NAMES \cup BIGINT_SURFACE_STRIPPED_GLOBAL_NAMES
    BY StrippedIs
  <2>2. s \notin NeuterSlots /\ s \notin ErrorSlots /\ s \notin DefineLocked /\ s # Create
    BY <1>n, <2>1, NeuterIs, ErrorIs, DefineIs
  <2>3. s \notin OtherEmptied
    BY <2>1, EmptiedIs DEF STRIPPED_GLOBAL_NAMES, BIGINT_SURFACE_STRIPPED_GLOBAL_NAMES
  <2>4. s # SavedFunction /\ s # SavedDefine
    BY <1>n, <2>1 DEF STRIPPED_GLOBAL_NAMES, BIGINT_SURFACE_STRIPPED_GLOBAL_NAMES
  <2> QED
    BY <1>f, <1>t, <2>2, <2>3, <2>4
<1>2. ASSUME NEW s \in ErrorSlots
      PROVE  s \notin StrippedGlobals /\ s \notin FunctionTouched /\ s \notin NeuterSlots
             /\ s \notin OtherEmptied /\ s \notin SaveTouched
  <2>1. s[1] = "Error"
    BY ErrorIs
  <2>2. s \notin NeuterSlots /\ s \notin OtherEmptied /\ s \notin StrippedGlobals /\ s \notin DefineLocked
        /\ s # Create /\ s # SavedFunction /\ s # SavedDefine
    BY <1>n, <2>1, NeuterIs, EmptiedIs, StrippedIs, DefineIs
  <2> QED
    BY <1>f, <1>t, <2>2
<1>3. ASSUME NEW s \in DefineLocked
      PROVE  s \notin StrippedGlobals /\ s \notin FunctionTouched /\ s \notin NeuterSlots
             /\ s \notin OtherEmptied /\ s \notin ErrorSlots
  <2>1. s[1] = "Object" /\ s[2] \in {"defineProperty", "defineProperties"}
    BY DefineIs
  <2>2. s \notin NeuterSlots /\ s \notin OtherEmptied /\ s \notin StrippedGlobals /\ s \notin ErrorSlots
        /\ s # SavedFunction
    BY <1>n, <2>1, NeuterIs, EmptiedIs, StrippedIs, ErrorIs
  <2> QED
    BY <1>f, <2>2
<1>4. ASSUME NEW s \in {SavedFunction, SavedDefine}
      PROVE  s \notin StrippedGlobals /\ s \notin NeuterSlots /\ s \notin OtherEmptied /\ s \notin ErrorSlots
  <2>1. s[1] = "global" /\ s[2] \in {"__Function", "__defineProperty"}
    BY <1>n
  <2>2. s \notin NeuterSlots /\ s \notin OtherEmptied /\ s \notin ErrorSlots
    BY <2>1, NeuterIs, EmptiedIs, ErrorIs
  <2>3. s \notin StrippedGlobals
    BY <2>1, StrippedIs DEF STRIPPED_GLOBAL_NAMES, BIGINT_SURFACE_STRIPPED_GLOBAL_NAMES
  <2> QED
    BY <2>2, <2>3
<1>5. SavedFunction \notin SaveTouched /\ SavedDefine \notin FunctionTouched
  <2>1. SavedFunction # SavedDefine /\ SavedFunction \notin DefineLocked /\ SavedFunction # Create
    BY <1>n, DefineIs
  <2>2. SavedDefine \notin NeuterSlots /\ SavedDefine \notin OtherEmptied
    BY <1>4
  <2> QED
    BY <1>f, <1>t, <2>1, <2>2
<1> QED
  BY <1>1, <1>2, <1>3, <1>4, <1>5

\* What the script as a whole makes of a fresh context, slot by slot.
LEMMA StripIs ==
  ASSUME NEW r \in Realms, NEW b, SavedDefine \in Slots, SavedFunction \in Slots, DefineLocked \subseteq Slots,
         \A s \in DefineLocked \cup ErrorSlots : s \in Slots => r[s] = Open("native"),
         r[SavedFunction].configurable
  PROVE  LET end == StripScript(r, b).realm
         IN  /\ Only(r, end, Touched)
             /\ end[SavedFunction].configurable /\ end[SavedDefine].configurable
             /\ \A s \in DefineLocked : end[s] = Locked("undefined")
             /\ \A s \in ErrorSlots \cap Slots : end[s] = Locked("pinned")
             /\ \A s \in StrippedGlobals \cap Slots : r[s] = Open("native") =>
                   end[s] = IF s \in EmptiedOf(b) THEN Open("undefined") ELSE Open("native")
             /\ StripScript(r, b).ok => \A s \in NeutersOf(b) : end[s] = Locked("undefined")
<1> DEFINE a1 == DeleteGlobals(r, StrippedNames(b))
           a2 == FunctionCtors(a1)
           a3 == Neutered(a2, Constructor(NEUTERED_PROTO_CONSTRUCTORS), "undefined")
           a4 == Assigned(a3, Global({"RegExp"}), "undefined")
           a5 == Neutered(a4, STRIPPED_PROTO_METHODS, "undefined")
           a6 == IF StripBigInt(b) THEN BigIntSurface(a5) ELSE a5
           a7 == ErrorStacks(a6)
           a8 == SaveAndLockDefine(a7)
           a9 == Assigned(a8, HostGlobals, "undefined")
           end == Assigned(a9, Global({"Math"}), "safeMath")
           big == BIGINT_SURFACE_STRIPPED_GLOBAL_NAMES
<1>1. a1 \in Realms /\ Only(r, a1, Global(StrippedNames(b)))
      /\ \A s \in Slots : s \in Global(StrippedNames(b)) /\ r[s].configurable => a1[s] = Open("undefined")
  BY DeleteGlobalsIs DEF Only
<1>2. a2 \in Realms /\ Only(a1, a2, FunctionTouched)
      /\ (a1[SavedFunction].configurable => a2[SavedFunction].configurable)
  BY <1>1, FunctionCtorsIs DEF Only
<1>3. a3 \in Realms /\ Only(a2, a3, NeuterSlots)
  BY <1>2, OnlyOne, ValuesAre, TouchedParts DEF Only
<1>4. a4 \in Realms /\ Only(a3, a4, OtherEmptied)
  BY <1>3, OnlyOne, ValuesAre, TouchedParts DEF Only
<1>5. a5 \in Realms /\ Only(a4, a5, NeuterSlots)
  BY <1>4, OnlyOne, ValuesAre, TouchedParts DEF Only
<1>6. /\ a6 \in Realms /\ Only(a5, a6, BigTouched)
      /\ \A s \in Slots : s \in Global(big) /\ a5[s].configurable
            => a6[s] = IF StripBigInt(b) THEN Open("undefined") ELSE a5[s]
      /\ ~StripBigInt(b) => a6 = a5
  BY <1>5, BigIntSurfaceIs DEF Only
<1>7. /\ a7 \in Realms /\ Only(a6, a7, ErrorSlots)
      /\ \A s \in Slots : s \in ErrorSlots /\ a6[s].configurable /\ a6[DefineProperty].value = "native"
            => a7[s] = Locked("pinned")
  BY <1>6, OnlyOne, NeuteredIs, ValuesAre DEF Only, ErrorStacks
<1>p. DefineProperty \in DefineLocked
  BY DEF DefineLocked
<1>8. /\ a8 \in Realms /\ Only(a7, a8, SaveTouched) /\ a8[SavedDefine].configurable
      /\ \A s \in Slots : s \in DefineLocked /\ a7[s].configurable => a8[s] = Locked("undefined")
  BY <1>7, <1>p, SaveAndLockDefineIs DEF Only
<1>9. a9 \in Realms /\ Only(a8, a9, OtherEmptied)
  BY <1>8, OnlyOne, ValuesAre, TouchedParts DEF Only
<1>10. end \in Realms /\ Only(a9, end, OtherEmptied)
  BY <1>9, OnlyOne, ValuesAre, TouchedParts DEF Only
<1>11. StripScript(r, b).realm = end
  BY DEF StripScript
<1> HIDE DEF a1, a2, a3, a4, a5, a6, a7, a8, a9, end
<1>n. Open("native").configurable /\ Open("native").value = "native"
  BY OpenLocked, ValuesAre
<1>12. Only(r, end, Touched)
  <2>1. ASSUME NEW s \in Slots, s \notin Touched PROVE end[s] = r[s]
    <3>1. /\ s \notin Global(StrippedNames(b)) /\ s \notin FunctionTouched /\ s \notin NeuterSlots
          /\ s \notin OtherEmptied /\ s \notin BigTouched /\ s \notin ErrorSlots /\ s \notin SaveTouched
      BY <2>1, TouchedParts DEF Touched
    <3> QED
      BY <1>1, <1>2, <1>3, <1>4, <1>5, <1>6, <1>7, <1>8, <1>9, <1>10, <3>1 DEF Only
  <2> QED
    BY <1>10, <2>1 DEF Only
<1>13. end[SavedFunction].configurable
  <2>1. /\ SavedFunction \notin Global(StrippedNames(b)) /\ SavedFunction \notin NeuterSlots
        /\ SavedFunction \notin OtherEmptied /\ SavedFunction \notin BigTouched
        /\ SavedFunction \notin ErrorSlots /\ SavedFunction \notin SaveTouched
    BY TouchedApart, TouchedParts DEF BigTouched
  <2> QED
    BY <1>1, <1>2, <1>3, <1>4, <1>5, <1>6, <1>7, <1>8, <1>9, <1>10, <2>1 DEF Only
<1>14. end[SavedDefine].configurable
  <2>1. SavedDefine \notin OtherEmptied
    BY TouchedApart
  <2> QED
    BY <1>8, <1>9, <1>10, <2>1 DEF Only
<1>15. ASSUME NEW s \in DefineLocked PROVE a6[s] = Open("native") /\ end[s] = Locked("undefined")
  <2>1. /\ s \in Slots /\ r[s] = Open("native") /\ s \notin Global(StrippedNames(b)) /\ s \notin NeuterSlots
        /\ s \notin OtherEmptied /\ s \notin BigTouched /\ s \notin ErrorSlots /\ s \notin FunctionTouched
    BY TouchedApart, TouchedParts DEF BigTouched
  <2>2. a6[s] = Open("native") /\ a7[s] = Open("native")
    BY <1>1, <1>2, <1>3, <1>4, <1>5, <1>6, <1>7, <2>1 DEF Only
  <2>3. a8[s] = Locked("undefined")
    BY <1>8, <1>n, <2>1, <2>2
  <2> QED
    BY <1>9, <1>10, <2>1, <2>2, <2>3 DEF Only
<1>16. ASSUME NEW s \in ErrorSlots \cap Slots PROVE end[s] = Locked("pinned")
  <2>1. /\ r[s] = Open("native") /\ s \notin Global(StrippedNames(b)) /\ s \notin NeuterSlots
        /\ s \notin OtherEmptied /\ s \notin BigTouched /\ s \notin SaveTouched /\ s \notin FunctionTouched
    BY TouchedApart, TouchedParts DEF BigTouched
  <2>2. a6[s] = Open("native")
    BY <1>1, <1>2, <1>3, <1>4, <1>5, <1>6, <2>1 DEF Only
  <2>3. a6[DefineProperty].value = "native"
    BY <1>n, <1>p, <1>15
  <2>4. a7[s] = Locked("pinned")
    BY <1>7, <1>n, <2>2, <2>3
  <2> QED
    BY <1>8, <1>9, <1>10, <2>1, <2>4 DEF Only
<1>17. ASSUME NEW s \in StrippedGlobals \cap Slots, r[s] = Open("native")
       PROVE  end[s] = IF s \in EmptiedOf(b) THEN Open("undefined") ELSE Open("native")
  <2>1. /\ s \notin NeuterSlots /\ s \notin OtherEmptied /\ s \notin SaveTouched /\ s \notin FunctionTouched
        /\ s \notin ErrorSlots /\ s \notin BigIntNeuters
    BY TouchedApart, TouchedParts
  <2>2. a1[s] = IF s \in Global(StrippedNames(b)) THEN Open("undefined") ELSE Open("native")
    BY <1>1, <1>n, <1>17 DEF Only
  <2>3. a5[s] = a1[s]
    BY <1>2, <1>3, <1>4, <1>5, <2>1 DEF Only
  <2>4. Open("undefined").configurable
    BY OpenLocked, ValuesAre
  <2>5. a6[s] = IF s \in Global(big) /\ StripBigInt(b) THEN Open("undefined") ELSE a5[s]
    <3>1. CASE s \in Global(big)
      BY <1>6, <1>n, <2>2, <2>3, <2>4, <3>1
    <3>2. CASE s \notin Global(big)
      BY <1>6, <2>1, <3>2 DEF Only, BigTouched
    <3> QED
      BY <3>1, <3>2
  <2>6. end[s] = a6[s]
    BY <1>7, <1>8, <1>9, <1>10, <2>1 DEF Only
  <2>7. s \in EmptiedOf(b) <=> s \in Global(StrippedNames(b)) \/ (s \in Global(big) /\ StripBigInt(b))
    <3>1. Global({}) = {}
      BY DEF Global
    <3> QED
      BY <3>1, GlobalIs DEF EmptiedOf
  <2> QED
    BY <2>2, <2>3, <2>5, <2>6, <2>7
<1>18. StripScript(r, b).ok => \A s \in NeutersOf(b) : end[s] = Locked("undefined")
  <2> DEFINE checks == FnFamilyTargets \cup Constructor(NEUTERED_PROTO_CONSTRUCTORS) \cup STRIPPED_PROTO_METHODS
                         \cup (IF StripBigInt(b) THEN BigIntNeuters ELSE {})
  <2>1. StripScript(r, b).ok => assertNeutered(StripScript(r, b).realm, checks)
    BY DEF StripScript
  <2>2. NeutersOf(b) \subseteq checks
    BY DEF NeutersOf, NeuterSlots, BigIntNeuters
  <2> HIDE DEF checks
  <2> QED
    BY <1>11, <2>1, <2>2 DEF assertNeutered
<1> QED
  BY <1>11, <1>12, <1>13, <1>14, <1>15, <1>16, <1>17, <1>18

(***************************************************************************)
(* Where the slots of the host and of the meters lie.                      *)
(***************************************************************************)
MeterSlots(b) == EarlyMeters(b) \cup LateMeters
HostMade == DepthHooks \cup ALLOC_HELPERS
HarnessSlots(b) == {Gas} \cup HostMade \cup MeterSlots(b)
BareSlots == PrivateGlobals \ ({Gas} \cup HostMade)

\* Every group lies in the slots, and what is native and pinned is of the context.
LEMMA SlotParts ==
  ASSUME NEW b
  PROVE  /\ NeuterSlots \subseteq Slots /\ DefineLocked \subseteq Slots /\ ErrorSlots \subseteq Slots
         /\ StrippedGlobals \subseteq Slots /\ PrivateGlobals \subseteq Slots /\ MeterSlots(b) \subseteq Slots
         /\ XChain \in Slots
         /\ DefineLocked \subseteq NativeSlots /\ ErrorSlots \subseteq NativeSlots
         /\ StrippedGlobals \subseteq NativeSlots
         /\ Gas \in PrivateGlobals /\ SavedFunction \in BareSlots /\ SavedDefine \in BareSlots
         /\ HostMade \subseteq PrivateGlobals
<1>1. NeuterSlots \subseteq Slots
  BY DEF Slots, NativeSlots
<1>2. DefineLocked \subseteq NativeSlots /\ ErrorSlots \subseteq NativeSlots
  BY DEF NativeSlots
<1>3. StrippedGlobals \subseteq NativeSlots
  BY DEF NativeSlots, StrippedGlobals
<1>4. EarlyMeters(b) \subseteq NativeSlots
  <2>1. <<"global", "Uint8Array">> \in Global({"eval", "Function", "RegExp", "Math", "Uint8Array", "Set"})
        /\ <<"global", "Set">> \in Global({"eval", "Function", "RegExp", "Math", "Uint8Array", "Set"})
    BY GlobalIs
  <2> QED
    BY <2>1 DEF EarlyMeters, NativeSlots
<1>5. LateMeters \subseteq NativeSlots
  BY DEF NativeSlots
<1>6. NativeSlots \subseteq Slots /\ PrivateGlobals \subseteq Slots /\ XChain \in Slots
  BY DEF Slots
<1>7. Gas \in PrivateGlobals /\ SavedFunction \in PrivateGlobals /\ SavedDefine \in PrivateGlobals
      /\ HostMade \subseteq PrivateGlobals
  BY DEF PrivateGlobals, HostMade
<1>8. SavedFunction \notin {Gas} \cup HostMade /\ SavedDefine \notin {Gas} \cup HostMade
  <2>1. /\ SavedFunction[2] = "__Function" /\ SavedDefine[2] = "__defineProperty" /\ Gas[2] = "__gas"
    BY DEF SavedFunction, SavedDefine, Gas
  <2>2. ASSUME NEW s \in HostMade PROVE s[2] # "__Function" /\ s[2] # "__defineProperty"
    BY <2>2, GlobalIs DEF HostMade, DepthHooks, ALLOC_HELPERS
  <2> QED
    BY <2>1, <2>2
<1> QED
  BY <1>1, <1>2, <1>3, <1>4, <1>5, <1>6, <1>7, <1>8 DEF MeterSlots, BareSlots

\* The script does not touch what the harness meters.
LEMMA MetersAre ==
  ASSUME NEW b, NEW s \in MeterSlots(b)
  PROVE  /\ s \notin Touched /\ s \notin PrivateGlobals /\ s # XChain /\ s \notin NeuterSlots
         /\ s \notin StrippedGlobals
<1>1. \/ s[1] = "Array" /\ s[2] \in {"fill", "sort"}
      \/ s[1] = "String" /\ s[2] = "repeat"
      \/ s[1] = "global" /\ s[2] \in {"Uint8Array", "Set"}
      \/ s[1] \in {"Uint8Array", "Set"} /\ s[2] = "constructor"
      \/ s[1] = "JSON"
  BY EarlyIs, LateIs DEF MeterSlots
<1>2. s \notin NeuterSlots
  BY <1>1, NeuterIs
<1>3. s \notin StrippedGlobals
  BY <1>1, StrippedIs DEF STRIPPED_GLOBAL_NAMES, BIGINT_SURFACE_STRIPPED_GLOBAL_NAMES
<1>4. s \notin OtherEmptied
  BY <1>1, EmptiedIs
<1>5. s \notin ErrorSlots /\ s \notin DefineLocked
  BY <1>1, ErrorIs, DefineIs
<1>6. s # SavedFunction /\ s # SavedDefine /\ s # Create /\ s # XChain
  BY <1>1 DEF SavedFunction, SavedDefine, Create, XChain
<1>7. s \notin PrivateGlobals
  BY <1>1, <1>6, PrivateIs DEF PrivateNames
<1> QED
  BY <1>2, <1>3, <1>4, <1>5, <1>6, <1>7 DEF Touched

\* Nor the private globals, but for the two it saves.
LEMMA PrivatesAre ==
  ASSUME NEW s \in PrivateGlobals
  PROVE  /\ s \notin NeuterSlots /\ s \notin StrippedGlobals /\ s # XChain
         /\ s # SavedFunction /\ s # SavedDefine => s \notin Touched
<1>1. CASE s = SavedFunction \/ s = SavedDefine
  <2>1. s # XChain
    BY <1>1 DEF SavedFunction, SavedDefine, XChain
  <2> QED
    BY <1>1, <2>1, TouchedApart
<1>2. CASE s # SavedFunction /\ s # SavedDefine
  <2>1. s[1] = "global" /\ s[2] \in PrivateNames
    BY <1>2, PrivateIs
  <2>2. s \notin NeuterSlots /\ s \notin ErrorSlots /\ s \notin DefineLocked
    BY <2>1, NeuterIs, ErrorIs, DefineIs
  <2>3. s \notin StrippedGlobals
    BY <2>1, StrippedIs DEF STRIPPED_GLOBAL_NAMES, BIGINT_SURFACE_STRIPPED_GLOBAL_NAMES, PrivateNames
  <2>4. s \notin OtherEmptied
    BY <2>1, EmptiedIs DEF PrivateNames
  <2>5. s # XChain /\ s # Create
    BY <2>1 DEF PrivateNames, XChain, Create
  <2> QED
    BY <1>2, <2>2, <2>3, <2>4, <2>5 DEF Touched
<1> QED
  BY <1>1, <1>2

(***************************************************************************)
(* What holds of the realm, phase by phase.  A slot that is neither        *)
(* writable nor configurable stays as it is under every write, delete and  *)
(* define, so it is enough that the script and the harness lock what they  *)
(* must, and the rest of the proof is that no part undoes another's work.  *)
(***************************************************************************)
FreshHolds(r, b) ==
    /\ r \in Realms
    /\ \A s \in DefineLocked \cup ErrorSlots \cup StrippedGlobals : r[s] = Open("native")
    /\ \A s \in PrivateGlobals \cup MeterSlots(b) : r[s].configurable

StripHolds(r, b) ==
    /\ r \in Realms
    /\ \A s \in NeutersOf(b) \cup DefineLocked : r[s] = Locked("undefined")
    /\ \A s \in ErrorSlots : r[s] = Locked("pinned")
    /\ \A s \in StrippedGlobals :
         r[s].value \in {IF s \in EmptiedOf(b) THEN "undefined" ELSE "native", "contract"}

HarnessReady(r, b) == \A s \in PrivateGlobals \cup MeterSlots(b) : r[s].configurable

HarnessHolds(r, b) ==
    /\ \A s \in HarnessSlots(b) : r[s] = Locked("harness")
    /\ \A s \in BareSlots \ {SavedFunction} : r[s].value \in {"absent", "contract"}

\* A step keeps what the script pinned as long as it leaves the stripped globals.
LEMMA StripKept ==
  ASSUME NEW r, NEW q \in Realms, NEW b, StripHolds(r, b),
         \A s \in Slots : IsLocked(r[s]) => q[s] = r[s],
         \A s \in StrippedGlobals : q[s] = r[s] \/ q[s].value = "contract"
  PROVE  StripHolds(q, b)
<1>1. NeutersOf(b) \cup DefineLocked \cup ErrorSlots \subseteq Slots
  BY SlotParts DEF NeutersOf
<1>2. IsLocked(Locked("undefined")) /\ IsLocked(Locked("pinned"))
  BY OpenLocked, ValuesAre
<1>3. \A s \in NeutersOf(b) \cup DefineLocked : q[s] = Locked("undefined")
  BY <1>1, <1>2 DEF StripHolds
<1>4. \A s \in ErrorSlots : q[s] = Locked("pinned")
  BY <1>1, <1>2 DEF StripHolds
<1>5. \A s \in StrippedGlobals :
         q[s].value \in {IF s \in EmptiedOf(b) THEN "undefined" ELSE "native", "contract"}
  BY DEF StripHolds
<1> QED
  BY <1>3, <1>4, <1>5 DEF StripHolds

\* A step keeps what the harness locked as long as it restores no reference.
LEMMA HarnessKept ==
  ASSUME NEW r, NEW q \in Realms, NEW b, HarnessHolds(r, b),
         \A s \in Slots : IsLocked(r[s]) => q[s] = r[s],
         \A s \in BareSlots \ {SavedFunction} : q[s] = r[s] \/ q[s].value = "contract"
  PROVE  HarnessHolds(q, b)
<1>1. HarnessSlots(b) \subseteq Slots
  BY SlotParts DEF HarnessSlots
<1>2. IsLocked(Locked("harness"))
  BY OpenLocked, ValuesAre
<1>3. \A s \in HarnessSlots(b) : q[s] = Locked("harness")
  BY <1>1, <1>2 DEF HarnessHolds
<1>4. \A s \in BareSlots \ {SavedFunction} : q[s].value \in {"absent", "contract"}
  BY DEF HarnessHolds
<1> QED
  BY <1>3, <1>4 DEF HarnessHolds

\* A new context, whatever the engine refuses to redefine.
LEMMA FreshIs ==
  ASSUME NEW b, NEW refused \in SUBSET NeuterSlots
  PROVE  FreshHolds([s \in Slots |-> IF s \in refused THEN Locked("native")
                                     ELSE IF s \in NativeSlots THEN Open("native") ELSE NoSlot], b)
<1> DEFINE r == [s \in Slots |-> IF s \in refused THEN Locked("native")
                                 ELSE IF s \in NativeSlots THEN Open("native") ELSE NoSlot]
<1>1. /\ Locked("native") \in Props /\ Open("native") \in Props /\ NoSlot \in Props
      /\ Open("native").configurable /\ NoSlot.configurable
  BY OpenLocked, ValuesAre
<1>2. r \in Realms
  BY <1>1 DEF Realms
<1>3. \A s \in NativeSlots : s \in Slots /\ (s \notin refused => r[s] = Open("native"))
  BY DEF Slots
<1>4. \A s \in Slots : s \notin refused => r[s].configurable
  BY <1>1
<1> HIDE DEF r
<1>5. \A s \in DefineLocked \cup ErrorSlots \cup StrippedGlobals : s \notin refused
  BY TouchedApart
<1>6. \A s \in PrivateGlobals \cup MeterSlots(b) : s \notin refused
  BY MetersAre, PrivatesAre
<1>7. \A s \in DefineLocked \cup ErrorSlots \cup StrippedGlobals : r[s] = Open("native")
  BY <1>3, <1>5, SlotParts
<1>8. \A s \in PrivateGlobals \cup MeterSlots(b) : r[s].configurable
  BY <1>4, <1>6, SlotParts
<1>9. FreshHolds(r, b)
  BY <1>2, <1>7, <1>8 DEF FreshHolds
<1> QED
  BY <1>9 DEF r

\* A script that ran to its end leaves every neuter of its block in place, and
\* the harness everything it needs (stripGlobals, assertNeutered).
LEMMA FreshStripped ==
  ASSUME NEW r, NEW b, FreshHolds(r, b), StripScript(r, b).ok
  PROVE  StripHolds(StripScript(r, b).realm, b) /\ HarnessReady(StripScript(r, b).realm, b)
<1> DEFINE end == StripScript(r, b).realm
<1>1. /\ r \in Realms
      /\ \A s \in DefineLocked \cup ErrorSlots \cup StrippedGlobals : r[s] = Open("native")
      /\ \A s \in PrivateGlobals \cup MeterSlots(b) : r[s].configurable
  BY DEF FreshHolds
<1>2. /\ SavedDefine \in Slots /\ SavedFunction \in Slots /\ DefineLocked \subseteq Slots
      /\ r[SavedFunction].configurable
  BY <1>1, SlotParts DEF BareSlots
<1>3. /\ Only(r, end, Touched)
      /\ end[SavedFunction].configurable /\ end[SavedDefine].configurable
      /\ \A s \in DefineLocked : end[s] = Locked("undefined")
      /\ \A s \in ErrorSlots \cap Slots : end[s] = Locked("pinned")
      /\ \A s \in StrippedGlobals \cap Slots : r[s] = Open("native") =>
            end[s] = IF s \in EmptiedOf(b) THEN Open("undefined") ELSE Open("native")
      /\ \A s \in NeutersOf(b) : end[s] = Locked("undefined")
  BY <1>1, <1>2, StripIs
<1> HIDE DEF end
<1>4. \A s \in ErrorSlots : end[s] = Locked("pinned")
  BY <1>3, SlotParts
<1>5. Open("undefined").value = "undefined" /\ Open("native").value = "native"
  BY OpenLocked, ValuesAre
<1>6. \A s \in StrippedGlobals : end[s].value = IF s \in EmptiedOf(b) THEN "undefined" ELSE "native"
  BY <1>1, <1>3, <1>5, SlotParts
<1>7. StripHolds(end, b)
  BY <1>3, <1>4, <1>6 DEF StripHolds, Only
<1>8. ASSUME NEW s \in PrivateGlobals \cup MeterSlots(b) PROVE end[s].configurable
  <2>1. s \in Slots
    BY SlotParts
  <2>2. CASE s = SavedFunction \/ s = SavedDefine
    BY <1>3, <2>2
  <2>3. CASE s # SavedFunction /\ s # SavedDefine
    <3>1. s \notin Touched
      BY <2>3, MetersAre, PrivatesAre
    <3> QED
      BY <1>1, <1>3, <2>1, <3>1 DEF Only
  <2> QED
    BY <2>2, <2>3
<1>9. HarnessReady(end, b)
  BY <1>8 DEF HarnessReady
<1> QED
  BY <1>7, <1>9 DEF end

\* What the host injects reaches nothing but the private globals.
LEMMA Injects ==
  ASSUME NEW r, NEW b, StripHolds(r, b), HarnessReady(r, b), NEW X \in SUBSET PrivateGlobals, NEW v \in Values
  PROVE  StripHolds(Assigned(r, X, v), b) /\ HarnessReady(Assigned(r, X, v), b)
<1> DEFINE q == Assigned(r, X, v)
<1>1. r \in Realms
  BY DEF StripHolds
<1>2. /\ q \in Realms
      /\ \A s \in Slots : /\ s \notin X \/ ~r[s].writable => q[s] = r[s]
                          /\ q[s].configurable = r[s].configurable
  BY <1>1, AssignedIs
<1> HIDE DEF q
<1>3. \A s \in Slots : IsLocked(r[s]) => q[s] = r[s]
  BY <1>2 DEF IsLocked
<1>4. \A s \in StrippedGlobals : q[s] = r[s]
  BY <1>2, PrivatesAre, SlotParts
<1>5. StripHolds(q, b)
  BY <1>2, <1>3, <1>4, StripKept
<1>6. HarnessReady(q, b)
  BY <1>2, SlotParts DEF HarnessReady
<1> QED
  BY <1>5, <1>6 DEF q

\* The harness locks its own and takes every private global away but one.
LEMMA HarnessIs ==
  ASSUME NEW r, NEW b, StripHolds(r, b), HarnessReady(r, b)
  PROVE  LET end == Harnessed(r, b)
         IN  StripHolds(end, b) /\ HarnessHolds(end, b) /\ end[SavedFunction].configurable
<1> DEFINE h1 == Deleted(r, {Gas})
           h2 == Defined(h1, {Gas}, "harness")
           h3 == Defined(h2, EarlyMeters(b), "harness")
           h4 == Deleted(h3, {SavedDefine})
           h5 == Assigned(h4, {XChain}, "xchain")
           h6 == CleanedUp(h5)
           H  == DepthHooks \cup LateMeters \cup ALLOC_HELPERS
           end == Defined(h6, H, "harness")
           kept == PrivateGlobals \ {Gas, SavedFunction}
<1>9. Harnessed(r, b) = end
  BY DEF Harnessed, h1, h2, h3, h4, h5, h6, end, H
<1> HIDE DEF h1, h2, h3, h4, h5, h6, end, kept, H
<1>1. r \in Realms
  BY DEF StripHolds
<1>2. /\ h1 \in Realms
      /\ \A s \in Slots : s # Gas \/ ~r[s].configurable => h1[s] = r[s]
      /\ \A s \in Slots : r[s].configurable => h1[s].configurable
  BY <1>1, DeletedIs DEF h1
<1>3. /\ h2 \in Realms
      /\ \A s \in Slots : /\ s # Gas \/ ~h1[s].configurable => h2[s] = h1[s]
                          /\ s = Gas /\ h1[s].configurable => h2[s] = Locked("harness")
  BY <1>2, DefinedIs, ValuesAre DEF h2
<1>4. /\ h3 \in Realms
      /\ \A s \in Slots : /\ s \notin EarlyMeters(b) \/ ~h2[s].configurable => h3[s] = h2[s]
                          /\ s \in EarlyMeters(b) /\ h2[s].configurable => h3[s] = Locked("harness")
  BY <1>3, DefinedIs, ValuesAre DEF h3
<1>5. /\ h4 \in Realms
      /\ \A s \in Slots : /\ s # SavedDefine \/ ~h3[s].configurable => h4[s] = h3[s]
                          /\ s = SavedDefine /\ h3[s].configurable => h4[s] = Open("absent")
  BY <1>4, DeletedIs DEF h4
<1>6. /\ h5 \in Realms
      /\ \A s \in Slots : s # XChain \/ ~h4[s].writable => h5[s] = h4[s]
  BY <1>5, AssignedIs, ValuesAre DEF h5
<1>7. /\ h6 \in Realms
      /\ \A s \in Slots : /\ s \notin kept \/ ~h5[s].configurable => h6[s] = h5[s]
                          /\ s \in kept /\ h5[s].configurable => h6[s] = Open("absent")
  BY <1>6, DeletedIs DEF CleanedUp, h6, kept
<1>8. /\ end \in Realms
      /\ \A s \in Slots : /\ s \notin H \/ ~h6[s].configurable => end[s] = h6[s]
                          /\ s \in H /\ h6[s].configurable => end[s] = Locked("harness")
  BY <1>7, DefinedIs, ValuesAre DEF end
<1>l. /\ ~Locked("harness").configurable /\ ~Locked("harness").writable
      /\ Open("absent").configurable /\ Open("absent").value = "absent"
  BY OpenLocked, ValuesAre DEF IsLocked
<1>10. ASSUME NEW s \in Slots, IsLocked(r[s]) PROVE end[s] = r[s]
  BY <1>2, <1>3, <1>4, <1>5, <1>6, <1>7, <1>8, <1>10 DEF IsLocked
<1>s. Gas \notin StrippedGlobals /\ XChain \notin StrippedGlobals /\ SavedDefine \notin StrippedGlobals
      /\ H \cap StrippedGlobals = {} /\ kept \cap StrippedGlobals = {}
      /\ EarlyMeters(b) \cap StrippedGlobals = {}
  <2>1. H \subseteq PrivateGlobals \cup MeterSlots(b)
    BY SlotParts DEF MeterSlots, HostMade, H
  <2>2. EarlyMeters(b) \subseteq MeterSlots(b)
    BY DEF MeterSlots
  <2>3. XChain \notin StrippedGlobals
    BY StrippedIs DEF XChain, STRIPPED_GLOBAL_NAMES, BIGINT_SURFACE_STRIPPED_GLOBAL_NAMES
  <2> QED
    BY <2>1, <2>2, <2>3, PrivatesAre, MetersAre, SlotParts DEF BareSlots, kept
<1>11. ASSUME NEW s \in StrippedGlobals PROVE end[s] = r[s]
  <2>1. s \in Slots
    BY SlotParts
  <2>2. s # Gas /\ s \notin EarlyMeters(b) /\ s # SavedDefine /\ s # XChain /\ s \notin kept /\ s \notin H
    BY <1>s
  <2> QED
    BY <1>2, <1>3, <1>4, <1>5, <1>6, <1>7, <1>8, <2>1, <2>2
<1>12. StripHolds(end, b)
  BY <1>8, <1>10, <1>11, StripKept
<1>g. /\ Gas # SavedDefine /\ Gas # SavedFunction /\ Gas \notin H /\ Gas \notin EarlyMeters(b)
      /\ SavedFunction \notin EarlyMeters(b) /\ SavedFunction # SavedDefine /\ SavedFunction \notin H
      /\ SavedFunction # XChain /\ Gas # XChain
  <2>1. Gas # SavedDefine /\ Gas # SavedFunction /\ SavedFunction # SavedDefine
    BY DEF Gas, SavedDefine, SavedFunction
  <2>2. Gas \notin MeterSlots(b) /\ SavedFunction \notin MeterSlots(b)
    BY MetersAre, SlotParts DEF BareSlots
  <2>3. Gas \notin HostMade
    BY GlobalIs DEF Gas, HostMade, DepthHooks, ALLOC_HELPERS
  <2>4. SavedFunction \notin HostMade
    BY SlotParts DEF BareSlots
  <2>5. SavedFunction # XChain /\ Gas # XChain
    BY PrivatesAre, SlotParts DEF BareSlots
  <2> QED
    BY <2>1, <2>2, <2>3, <2>4, <2>5 DEF MeterSlots, HostMade, H
<1>13. end[Gas] = Locked("harness")
  <2>1. Gas \in Slots /\ r[Gas].configurable
    BY SlotParts DEF HarnessReady
  <2>2. h2[Gas] = Locked("harness")
    BY <1>2, <1>3, <2>1
  <2> QED
    BY <1>4, <1>5, <1>6, <1>7, <1>8, <1>g, <1>l, <2>1, <2>2
<1>14. end[SavedFunction].configurable
  <2>1. SavedFunction \in Slots /\ r[SavedFunction].configurable /\ SavedFunction \notin kept
    BY SlotParts DEF HarnessReady, BareSlots, kept
  <2> QED
    BY <1>2, <1>3, <1>4, <1>5, <1>6, <1>7, <1>8, <1>g, <2>1
<1>15. ASSUME NEW s \in EarlyMeters(b) PROVE end[s] = Locked("harness")
  <2>1. s \in MeterSlots(b) /\ s \in Slots /\ s # Gas
    BY <1>g, SlotParts DEF MeterSlots
  <2>2. r[s].configurable
    BY <2>1 DEF HarnessReady
  <2>3. h3[s] = Locked("harness")
    BY <1>2, <1>3, <1>4, <2>1, <2>2
  <2> QED
    BY <1>5, <1>6, <1>7, <1>8, <1>l, <2>1, <2>3
<1>16. ASSUME NEW s \in LateMeters, s \notin EarlyMeters(b) PROVE end[s] = Locked("harness")
  <2>1. s \in MeterSlots(b) /\ s \in Slots /\ s \in H
    BY SlotParts DEF MeterSlots, H
  <2>2. s # Gas /\ s # SavedDefine /\ s # XChain /\ s \notin kept
    BY <2>1, MetersAre, SlotParts DEF BareSlots, kept
  <2>3. r[s].configurable
    BY <2>1 DEF HarnessReady
  <2>4. h6[s] = r[s]
    BY <1>2, <1>3, <1>4, <1>5, <1>6, <1>7, <1>16, <2>1, <2>2
  <2> QED
    BY <1>8, <2>1, <2>3, <2>4
<1>17. ASSUME NEW s \in PrivateGlobals, s # Gas, s # SavedFunction
       PROVE  h6[s] = Open("absent")
  <2>1. s \in Slots /\ s \notin EarlyMeters(b) /\ s # XChain /\ s \in kept
    BY <1>17, MetersAre, PrivatesAre, SlotParts DEF MeterSlots, kept
  <2>2. r[s].configurable
    BY DEF HarnessReady
  <2>3. h3[s] = r[s]
    BY <1>2, <1>3, <1>4, <1>17, <2>1
  <2>4. h5[s].configurable
    BY <1>5, <1>6, <1>l, <2>1, <2>2, <2>3
  <2> QED
    BY <1>7, <2>1, <2>4
<1>18. ASSUME NEW s \in HostMade PROVE end[s] = Locked("harness")
  <2>1. s \in PrivateGlobals /\ s \in Slots /\ s # Gas /\ s # SavedFunction /\ s \in H
    BY <1>g, SlotParts DEF HostMade, H
  <2> QED
    BY <1>8, <1>17, <1>l, <2>1
<1>19. ASSUME NEW s \in BareSlots \ {SavedFunction} PROVE end[s].value = "absent"
  <2>1. s \in PrivateGlobals /\ s \in Slots /\ s # Gas /\ s # SavedFunction /\ s \notin HostMade
    BY SlotParts DEF BareSlots
  <2>2. s \notin H
    BY <2>1, MetersAre DEF HostMade, MeterSlots, H
  <2>3. h6[s] = Open("absent")
    BY <1>17, <2>1
  <2> QED
    BY <1>8, <1>l, <2>1, <2>2, <2>3
<1>20. HarnessHolds(end, b)
  BY <1>13, <1>15, <1>16, <1>18, <1>19 DEF HarnessHolds, HarnessSlots, MeterSlots
<1> QED
  BY <1>9, <1>12, <1>14, <1>20

\* Neither the wrapper, which takes Function, nor the contract, which writes what
\* it can, changes what is locked.
LEMMA FunctionTaken ==
  ASSUME NEW r, NEW b, StripHolds(r, b), HarnessHolds(r, b), r[SavedFunction].configurable
  PROVE  LET q == Deleted(r, {SavedFunction})
         IN  StripHolds(q, b) /\ HarnessHolds(q, b) /\ q[SavedFunction].value = "absent"
<1> DEFINE q == Deleted(r, {SavedFunction})
<1>1. r \in Realms
  BY DEF StripHolds
<1>2. /\ q \in Realms
      /\ \A s \in Slots : /\ s # SavedFunction \/ ~r[s].configurable => q[s] = r[s]
                          /\ s = SavedFunction /\ r[s].configurable => q[s] = Open("absent")
  BY <1>1, DeletedIs
<1> HIDE DEF q
<1>3. \A s \in Slots : IsLocked(r[s]) => q[s] = r[s]
  BY <1>2 DEF IsLocked
<1>4. SavedFunction \notin StrippedGlobals /\ SavedFunction \in Slots
  BY PrivatesAre, SlotParts DEF BareSlots
<1>5. StripHolds(q, b)
  BY <1>2, <1>3, <1>4, StripKept, SlotParts
<1>6. BareSlots \subseteq Slots
  BY SlotParts DEF BareSlots
<1>7. HarnessHolds(q, b)
  BY <1>2, <1>3, <1>6, HarnessKept
<1>8. Open("absent").value = "absent"
  BY OpenLocked, ValuesAre
<1> QED
  BY <1>2, <1>4, <1>5, <1>7, <1>8 DEF q

\* What the contract writes, it writes over what it may.
LEMMA WrittenIs ==
  ASSUME NEW r, NEW b, StripHolds(r, b), HarnessHolds(r, b), r[SavedFunction].value \in {"absent", "contract"},
         NEW slot \in Slots, r[slot].writable \/ r[slot].configurable
  PROVE  LET q == [r EXCEPT ![slot] = Open("contract")]
         IN  StripHolds(q, b) /\ HarnessHolds(q, b) /\ q[SavedFunction].value \in {"absent", "contract"}
<1> DEFINE q == [r EXCEPT ![slot] = Open("contract")]
<1>1. r \in Realms /\ Open("contract") \in Props /\ Open("contract").value = "contract"
  BY OpenLocked, ValuesAre DEF StripHolds
<1>2. /\ q \in Realms
      /\ \A s \in Slots : q[s] = IF s = slot THEN Open("contract") ELSE r[s]
  BY <1>1 DEF Realms
<1> HIDE DEF q
<1>3. \A s \in Slots : IsLocked(r[s]) => q[s] = r[s]
  BY <1>2 DEF IsLocked
<1>4. \A s \in Slots : q[s] = r[s] \/ q[s].value = "contract"
  BY <1>1, <1>2
<1>5. BareSlots \subseteq Slots /\ SavedFunction \in Slots
  BY SlotParts DEF BareSlots
<1>6. StripHolds(q, b)
  BY <1>2, <1>3, <1>4, StripKept, SlotParts
<1>7. HarnessHolds(q, b)
  BY <1>2, <1>3, <1>4, <1>5, HarnessKept
<1> QED
  BY <1>4, <1>5, <1>6, <1>7 DEF q

\* The inductive invariant, and that of the wrapper.
SlotsInv ==
    /\ phase = "created" => FreshHolds(realm, realmBlock)
    /\ phase \in {"stripped", "bridged", "injected"} =>
         StripHolds(realm, realmBlock) /\ HarnessReady(realm, realmBlock)
    /\ phase = "harnessed" =>
         /\ StripHolds(realm, realmBlock) /\ HarnessHolds(realm, realmBlock)
         /\ realm[SavedFunction].configurable
    /\ phase \in {"body", "method", "done"} =>
         /\ StripHolds(realm, realmBlock) /\ HarnessHolds(realm, realmBlock)
         /\ realm[SavedFunction].value \in {"absent", "contract"}

DispatchInv ==
    /\ phase # "done" => report = NoReport
    /\ isLintHardeningActive(realmBlock) => control = asked
    /\ DispatchIsTheHosts

\* The realm of a running contract is the one that was promised.
LEMMA SlotsHold ==
  ASSUME SlotsInv, phase \in {"body", "method", "done"}
  PROVE  RealmHolds
BY DEF SlotsInv, StripHolds, HarnessHolds, HarnessSlots, MeterSlots, HostMade, BareSlots, StrippedGlobals,
   RealmHolds

\* Every step keeps the invariant of the slots.
LEMMA SlotsStep ==
  ASSUME SlotsInv, [RealmNext]_realmVars
  PROVE  SlotsInv'
<1>u. CASE UNCHANGED <<realmBlock, realm, phase>>
  BY <1>u DEF SlotsInv, FreshHolds, StripHolds, HarnessReady, HarnessHolds
<1>1. ASSUME NEW refused \in {{}} \cup {{s} : s \in NeuterSlots}, createContext(refused)
      PROVE  SlotsInv'
  <2>1. refused \in SUBSET NeuterSlots
    OBVIOUS
  <2>2. FreshHolds(realm, realmBlock)'
    <3>1. PICK r : r = [s \in Slots |-> IF s \in refused THEN Locked("native")
                                        ELSE IF s \in NativeSlots THEN Open("native") ELSE NoSlot]
      OBVIOUS
    <3>2. FreshHolds(r, realmBlock)
      BY <2>1, <3>1, FreshIs
    <3>3. realm' = r /\ realmBlock' = realmBlock
      BY <1>1, <3>1 DEF createContext
    <3> QED
      BY <3>2, <3>3 DEF FreshHolds
  <2>3. phase' = "created"
    BY <1>1 DEF createContext
  <2> QED
    BY <2>2, <2>3 DEF SlotsInv
<1>2. CASE stripGlobals
  <2>1. PICK r : r = StripScript(realm, realmBlock).realm
    OBVIOUS
  <2>2. realm' = r /\ realmBlock' = realmBlock /\ phase = "created"
        /\ phase' = IF StripScript(realm, realmBlock).ok THEN "stripped" ELSE "hostFault"
    BY <1>2, <2>1 DEF stripGlobals
  <2>3. StripScript(realm, realmBlock).ok => StripHolds(r, realmBlock) /\ HarnessReady(r, realmBlock)
    BY <2>1, <2>2, FreshStripped DEF SlotsInv
  <2> QED
    BY <2>2, <2>3 DEF SlotsInv, StripHolds, HarnessReady
<1>3. CASE injectGateway
  <2>1. PICK r : r = Assigned(realm, GatewayRefs \cup {Gas}, "ref")
    OBVIOUS
  <2>2. realm' = r /\ realmBlock' = realmBlock /\ phase = "stripped" /\ phase' = "bridged"
    BY <1>3, <2>1 DEF injectGateway
  <2>3. GatewayRefs \cup {Gas} \in SUBSET PrivateGlobals
    BY DEF PrivateGlobals
  <2>4. StripHolds(r, realmBlock) /\ HarnessReady(r, realmBlock)
    BY <2>1, <2>2, <2>3, Injects, ValuesAre DEF SlotsInv
  <2> QED
    BY <2>2, <2>4 DEF SlotsInv, StripHolds, HarnessReady
<1>4. CASE injectExecutionGlobals
  <2>1. PICK V : V = ExecutionValues \cup (IF isNativeStackTerminalActive(realmBlock) THEN {NativeStackOn} ELSE {})
    OBVIOUS
  <2>2. PICK R : R = IF isResourceFaultSignalActive(realmBlock) THEN {StackFault} ELSE {}
    OBVIOUS
  <2>3. PICK q : q = Assigned(realm, V, "host")
    OBVIOUS
  <2>4. PICK r : r = Assigned(q, R, "ref")
    OBVIOUS
  <2>5. realm' = r /\ realmBlock' = realmBlock /\ phase = "bridged" /\ phase' = "injected"
    BY <1>4, <2>1, <2>2, <2>3, <2>4 DEF injectExecutionGlobals
  <2>6. V \in SUBSET PrivateGlobals /\ R \in SUBSET PrivateGlobals
    BY <2>1, <2>2 DEF PrivateGlobals
  <2>7. StripHolds(q, realmBlock) /\ HarnessReady(q, realmBlock)
    BY <2>3, <2>5, <2>6, Injects, ValuesAre DEF SlotsInv
  <2>8. StripHolds(r, realmBlock) /\ HarnessReady(r, realmBlock)
    BY <2>4, <2>6, <2>7, Injects, ValuesAre
  <2> QED
    BY <2>5, <2>8 DEF SlotsInv, StripHolds, HarnessReady
<1>5. CASE runHarness
  <2>1. PICK r : r = Harnessed(realm, realmBlock)
    OBVIOUS
  <2>2. realm' = r /\ realmBlock' = realmBlock /\ phase = "injected" /\ phase' = "harnessed"
    BY <1>5, <2>1 DEF runHarness
  <2>3. StripHolds(r, realmBlock) /\ HarnessHolds(r, realmBlock) /\ r[SavedFunction].configurable
    BY <2>1, <2>2, HarnessIs DEF SlotsInv
  <2> QED
    BY <2>2, <2>3 DEF SlotsInv, StripHolds, HarnessHolds
<1>6. CASE StartModule
  <2>1. PICK r : r = Deleted(realm, {SavedFunction})
    OBVIOUS
  <2>2. realm' = r /\ realmBlock' = realmBlock /\ phase = "harnessed" /\ phase' = "body"
    BY <1>6, <2>1 DEF StartModule
  <2>3. StripHolds(r, realmBlock) /\ HarnessHolds(r, realmBlock) /\ r[SavedFunction].value = "absent"
    BY <2>1, <2>2, FunctionTaken DEF SlotsInv
  <2> QED
    BY <2>2, <2>3 DEF SlotsInv, StripHolds, HarnessHolds
<1>7. ASSUME NEW slot \in Slots, ContractWrites(slot) PROVE SlotsInv'
  <2>1. PICK r : r = [realm EXCEPT ![slot] = Open("contract")]
    OBVIOUS
  <2>2. realm' = r /\ realmBlock' = realmBlock /\ phase' = phase /\ phase \in {"body", "method"}
        /\ (realm[slot].writable \/ realm[slot].configurable)
    BY <1>7, <2>1 DEF ContractWrites, Running
  <2>3. StripHolds(r, realmBlock) /\ HarnessHolds(r, realmBlock)
        /\ r[SavedFunction].value \in {"absent", "contract"}
    BY <2>1, <2>2, WrittenIs DEF SlotsInv
  <2> QED
    BY <2>2, <2>3 DEF SlotsInv, StripHolds, HarnessHolds
<1>8. ASSUME NEW request \in Requests, ContractSetsControl(request) PROVE SlotsInv'
  BY <1>8, <1>u DEF ContractSetsControl
<1>9. CASE (\E module \in Modules : ModuleEnds(module)) \/ ModuleThrows \/ MethodEnds
  <2>1. realm' = realm /\ realmBlock' = realmBlock /\ phase \in {"body", "method"}
        /\ phase' \in {"method", "done"}
    BY <1>9 DEF ModuleEnds, ModuleThrows, MethodEnds, Ended
  <2> QED
    BY <2>1 DEF SlotsInv, StripHolds, HarnessHolds
<1>10. CASE UNCHANGED realmVars
  BY <1>10, <1>u DEF realmVars
<1> QED
  BY <1>1, <1>2, <1>3, <1>4, <1>5, <1>6, <1>7, <1>8, <1>9, <1>10 DEF RealmNext

\* And the wrapper's bindings: no step but those of the wrapper reports.
LEMMA DispatchStep ==
  ASSUME DispatchInv, [RealmNext]_realmVars
  PROVE  DispatchInv'
<1>n. NoReport.is # "returned"
  BY DEF NoReport
<1>1. CASE /\ UNCHANGED <<realmBlock, asked, control, exported, report>>
           /\ phase \notin {"method", "done"} /\ phase' \notin {"method", "done"}
  BY <1>1, <1>n DEF DispatchInv, DispatchIsTheHosts, isLintHardeningActive
<1>u. CASE UNCHANGED <<realmBlock, asked, control, exported, report, phase>>
  BY <1>u DEF DispatchInv, DispatchIsTheHosts
<1>2. CASE \/ \E refused \in {{}} \cup {{s} : s \in NeuterSlots} : createContext(refused)
           \/ stripGlobals \/ injectGateway \/ injectExecutionGlobals \/ runHarness \/ StartModule
  BY <1>1, <1>2 DEF createContext, stripGlobals, injectGateway, injectExecutionGlobals, runHarness, StartModule
<1>3. CASE \E slot \in Slots : ContractWrites(slot)
  BY <1>3, <1>u DEF ContractWrites
<1>4. CASE \E request \in Requests : ContractSetsControl(request)
  BY <1>4 DEF ContractSetsControl, DispatchInv, DispatchIsTheHosts
<1>5. ASSUME NEW module \in Modules, ModuleEnds(module) PROVE DispatchInv'
  <2>1. phase = "body" /\ report = NoReport /\ exported' = module
        /\ UNCHANGED <<realmBlock, asked, control>>
    BY <1>5 DEF ModuleEnds, DispatchInv
  <2>2. CASE control.manifest /\ Ended(ManifestReport(module))
    <3>1. /\ ManifestReport(module).is = "manifest"
          /\ ManifestReport(module).permissions = (module.kind = "object" /\ module.permissions = "list")
          /\ ManifestReport(module).meta = MetaOf(module)
      BY DEF ManifestReport
    <3>2. MetaOf(module).json => ~(MetaOf(module).error \/ MetaOf(module).oversize)
      BY DEF MetaOf
    <3> QED
      BY <2>1, <2>2, <3>1, <3>2 DEF Ended, DispatchInv, DispatchIsTheHosts
  <2>3. CASE ~control.manifest
    <3>1. \/ phase' = "done" /\ report'.is # "returned"
          \/ /\ phase' = "method" /\ report' = report
             /\ control.cross => module.kind = "object" /\ module.callable
      BY <1>5, <2>3 DEF ModuleEnds, Ended
    <3> QED
      BY <1>n, <2>1, <2>3, <3>1 DEF DispatchInv, DispatchIsTheHosts
  <2> QED
    BY <1>5, <2>2, <2>3 DEF ModuleEnds
<1>6. CASE ModuleThrows
  <2>1. /\ phase' = "done" /\ report'.is = "threw"
        /\ UNCHANGED <<realmBlock, asked, control, exported>>
    BY <1>6 DEF ModuleThrows, Ended
  <2> QED
    BY <2>1 DEF DispatchInv, DispatchIsTheHosts
<1>7. CASE MethodEnds
  <2>1. /\ phase = "method" /\ phase' = "done" /\ report'.is = "returned"
        /\ UNCHANGED <<realmBlock, asked, control, exported>>
    BY <1>7 DEF MethodEnds, Ended
  <2> QED
    BY <2>1 DEF DispatchInv, DispatchIsTheHosts
<1>8. CASE UNCHANGED realmVars
  BY <1>8, <1>u DEF realmVars
<1> QED
  BY <1>2, <1>3, <1>4, <1>5, <1>6, <1>7, <1>8 DEF RealmNext

\* From the contract's first step on its realm is the one that the sandbox and the
\* harness made for its block, whatever the engine refused to redefine and however
\* often the contract writes, and what ran is what the host asked for (sandbox.js,
\* neuter_check.js, harness_part_3.js, contract_wrapper.js).
THEOREM RealmStaysSealed == RealmSpec => []RealmSealed
<1>1. RealmInit => SlotsInv /\ DispatchInv
  BY DEF RealmInit, SlotsInv, DispatchInv, DispatchIsTheHosts, NoReport
<1>2. SlotsInv /\ DispatchInv /\ [RealmNext]_realmVars => (SlotsInv /\ DispatchInv)'
  BY SlotsStep, DispatchStep
<1>3. SlotsInv /\ DispatchInv => RealmSealed
  BY SlotsHold DEF DispatchInv, RealmSealed
<1> QED
  BY <1>1, <1>2, <1>3, PTL DEF RealmSpec

(***************************************************************************)
(* The fleet.  What an execution runs with is a function of its block      *)
(* because each cache holds nothing but the source of its own mask.  What  *)
(* the derivation makes of a mask is TLC's part (DerivationAssumption).    *)
(***************************************************************************)
\* The rules, by name, and which of them a block arms.
LEMMA RulesAre ==
  RuleNames = {"resourceFaultSignal", "hostErrorStackStrip", "hostCallBounds", "stringifyReentry",
               "perElementMeter", "stringReceiverMeter", "toStringSizeMeter", "nativeStackTerminal"}
<1>1. DOMAIN RULES = 1 .. 8
  BY DEF RULES
<1>2. \A i \in 1 .. 8 : i = 1 \/ i = 2 \/ i = 3 \/ i = 4 \/ i = 5 \/ i = 6 \/ i = 7 \/ i = 8
  OBVIOUS
<1>3. /\ RULES[1] = "resourceFaultSignal" /\ RULES[2] = "hostErrorStackStrip" /\ RULES[3] = "hostCallBounds"
      /\ RULES[4] = "stringifyReentry" /\ RULES[5] = "perElementMeter" /\ RULES[6] = "stringReceiverMeter"
      /\ RULES[7] = "toStringSizeMeter" /\ RULES[8] = "nativeStackTerminal"
  BY DEF RULES
<1> QED
  BY <1>1, <1>2, <1>3 DEF RuleNames

\* The mask of a block, rule by rule.
LEMMA MaskIs ==
  ASSUME NEW b
  PROVE  /\ executionHarnessMask(b) \in Masks
         /\ "resourceFaultSignal" \in executionHarnessMask(b) <=> isResourceFaultSignalActive(b)
         /\ "hostErrorStackStrip" \in executionHarnessMask(b) <=> isHostErrorStackStripActive(b)
         /\ "hostCallBounds" \in executionHarnessMask(b) <=> TimeGate(HOST_CALL_BOUNDS_ACTIVATION, b)
         /\ "stringifyReentry" \in executionHarnessMask(b) <=> isJsonStringifyReentryActive(b)
         /\ "perElementMeter" \in executionHarnessMask(b) <=> TimeGate(PER_ELEMENT_METER_ACTIVATION, b)
         /\ "stringReceiverMeter" \in executionHarnessMask(b) <=> TimeGate(STRING_RECEIVER_METER_ACTIVATION, b)
         /\ "toStringSizeMeter" \in executionHarnessMask(b) <=> isToStringSizeMeterActive(b)
         /\ "nativeStackTerminal" \in executionHarnessMask(b) <=> isNativeStackTerminalActive(b)
BY RulesAre DEF executionHarnessMask, Masks

\* Regtest arms every rule.
LEMMA RegtestArmsAll ==
  ASSUME NEW b, b.network = "regtest"
  PROVE  executionHarnessMask(b) = RuleNames
<1>1. \A table : resolveRegtestGenesisHeightGate(table, b)
  BY DEF resolveRegtestGenesisHeightGate
<1>2. \A t \in Nat : TimeGate(TimeTable(t), b)
  BY DEF TimeGate, TimeTable, Finite
<1>3. isToStringSizeMeterActive(b)
  BY DEF isToStringSizeMeterActive, GateTime, TOSTRING_SIZE_METER_ACTIVATION, TimeTable
<1>4. /\ TimeGate(HOST_CALL_BOUNDS_ACTIVATION, b) /\ TimeGate(PER_ELEMENT_METER_ACTIVATION, b)
      /\ TimeGate(STRING_RECEIVER_METER_ACTIVATION, b)
  BY <1>2 DEF HOST_CALL_BOUNDS_ACTIVATION, PER_ELEMENT_METER_ACTIVATION, STRING_RECEIVER_METER_ACTIVATION
<1>5. /\ isResourceFaultSignalActive(b) /\ isHostErrorStackStripActive(b) /\ isJsonStringifyReentryActive(b)
      /\ isNativeStackTerminalActive(b)
  BY <1>1 DEF isResourceFaultSignalActive, isHostErrorStackStripActive, isJsonStringifyReentryActive,
     isNativeStackTerminalActive
<1> QED
  BY <1>3, <1>4, <1>5, MaskIs, RulesAre DEF Masks

\* A network that tests nothing arms none: no block time reaches the sentinel.
LEMMA MainnetArmsNone ==
  ASSUME NEW b, b.network \notin {"testnet", "regtest"}, b.time \in Int, b.time < NEVER
  PROVE  executionHarnessMask(b) = {}
<1>1. \A table : ~resolveRegtestGenesisHeightGate(table, b)
  BY DEF resolveRegtestGenesisHeightGate
<1>2. \A t \in Nat : ~TimeGate(TimeTable(t), b)
  BY DEF TimeGate, TimeTable, Finite, Unarmed
<1>3. ~isToStringSizeMeterActive(b)
  <2>1. GateTime(TOSTRING_SIZE_METER_ACTIVATION, b.network) = NEVER
    BY DEF GateTime, TOSTRING_SIZE_METER_ACTIVATION, TimeTable
  <2> QED
    BY <2>1 DEF isToStringSizeMeterActive, NEVER
<1>4. /\ ~TimeGate(HOST_CALL_BOUNDS_ACTIVATION, b) /\ ~TimeGate(PER_ELEMENT_METER_ACTIVATION, b)
      /\ ~TimeGate(STRING_RECEIVER_METER_ACTIVATION, b)
  BY <1>2 DEF HOST_CALL_BOUNDS_ACTIVATION, PER_ELEMENT_METER_ACTIVATION, STRING_RECEIVER_METER_ACTIVATION
<1>5. /\ ~isResourceFaultSignalActive(b) /\ ~isHostErrorStackStripActive(b) /\ ~isJsonStringifyReentryActive(b)
      /\ ~isNativeStackTerminalActive(b)
  BY <1>1 DEF isResourceFaultSignalActive, isHostErrorStackStripActive, isJsonStringifyReentryActive,
     isNativeStackTerminalActive
<1> QED
  BY <1>3, <1>4, <1>5, MaskIs, RulesAre DEF Masks

\* The two halves of a rule, in the harness and beside it.
LEMMA HalvesTogether ==
  ASSUME NEW b, b.height \in Int, b.time \in Int
  PROVE  /\ ExecutionGlobals(b).nativeStack = isNativeStackTerminalActive(b)
         /\ ExecutionGlobals(b).stackFault = isResourceFaultSignalActive(b)
         /\ ExecutionGlobals(b).jsonHooks => ExecutionGlobals(b).nativeDepthGuard
         /\ b.network = "regtest" => (ExecutionGlobals(b).jsonHooks <=> ExecutionGlobals(b).nativeDepthGuard)
         /\ ExecutionGlobals(b).nativeDepthLimit <= MAX_STACK_DEPTH_MUSL
         /\ MeteringGates(b).hostFaultHalt => "syntaxDepth" \in MeteringGates(b).lintFlags
<1>1. /\ ExecutionGlobals(b).nativeStack = isNativeStackTerminalActive(b)
      /\ ExecutionGlobals(b).stackFault = isResourceFaultSignalActive(b)
      /\ ExecutionGlobals(b).jsonHooks = isJsonHookActive(b)
      /\ ExecutionGlobals(b).nativeDepthGuard = PlainTime(b, CONTRACT_ERA_BLOCK_TIME)
      /\ ExecutionGlobals(b).nativeDepthLimit <= MAX_STACK_DEPTH_MUSL
  BY DEF ExecutionGlobals, MAX_STACK_DEPTH, MAX_STACK_DEPTH_MUSL
<1>2. isJsonHookActive(b) => PlainTime(b, CONTRACT_ERA_BLOCK_TIME)
  BY DEF isJsonHookActive
<1>3. b.network = "regtest" /\ PlainTime(b, CONTRACT_ERA_BLOCK_TIME) => isJsonHookActive(b)
  <2>1. b.network = "regtest" => GateTime(JSON_STRINGIFY_HOOK_ACTIVATION, b.network) = 0
    BY DEF GateTime, JSON_STRINGIFY_HOOK_ACTIVATION, TimeTable
  <2> QED
    BY <2>1 DEF isJsonHookActive, PlainTime, Finite
<1>4. isHostFaultHaltActive(b) => isLintSyntaxDepthActive(b)
  <2>1. \A c \in {"BTC", "LTC", "DOGE"} :
           LINT_SYNTAX_DEPTH_ACTIVATION[c] <= HOST_FAULT_HALT_ACTIVATION[c]
           /\ LINT_SYNTAX_DEPTH_ACTIVATION[c] \in Int /\ HOST_FAULT_HALT_ACTIVATION[c] \in Int
    BY DEF LINT_SYNTAX_DEPTH_ACTIVATION, HOST_FAULT_HALT_ACTIVATION, HeightTable
  <2>2. DOMAIN LINT_SYNTAX_DEPTH_ACTIVATION = {"BTC", "LTC", "DOGE"}
        /\ DOMAIN HOST_FAULT_HALT_ACTIVATION = {"BTC", "LTC", "DOGE"}
    BY DEF LINT_SYNTAX_DEPTH_ACTIVATION, HOST_FAULT_HALT_ACTIVATION, HeightTable
  <2> QED
    BY <2>1, <2>2 DEF isHostFaultHaltActive, isLintSyntaxDepthActive, resolveRegtestGenesisHeightGate
<1>5. /\ MeteringGates(b).hostFaultHalt = isHostFaultHaltActive(b)
      /\ MeteringGates(b).lintFlags = lintFlags(b)
  BY DEF MeteringGates
<1>6. isLintSyntaxDepthActive(b) => "syntaxDepth" \in lintFlags(b)
  BY DEF lintFlags
<1> QED
  BY <1>1, <1>2, <1>3, <1>4, <1>5, <1>6

\* What a block runs with, whatever ran before it.
ExecOf(block, limit) ==
    [done |-> TRUE, block |-> block, code |-> sourceFor(executionHarnessMask(block)),
     globals |-> ExecutionGlobals(block), gates |-> MeteringGates(block),
     budget |-> resolveWallClockBudgetMs(isConsensusWallClockActive(block), limit)]

FleetInv ==
    /\ installed \in Versions /\ maxCpuTimeMs \in CpuLimits
    /\ loaded = "yes" => installed = PINNED \cup DEPENDENCY_PINNED
    /\ harnessCachedData \in {NoData, sourceFor({})}
    /\ \A mask \in DOMAIN armedHarnessCache : armedHarnessCache[mask] = sourceFor(mask)
    /\ lastExec.done => /\ \E block \in Blocks : lastExec = ExecOf(block, nodeLimit)
                        /\ installed = PINNED \cup DEPENDENCY_PINNED

\* The startup gates let in nothing but what is pinned.
LEMMA LoadStep ==
  ASSUME FleetInv, Load
  PROVE  FleetInv'
<1>1. loaded' = "yes" => installed = PINNED \cup DEPENDENCY_PINNED
  <2>1. installed \subseteq PINNED \cup DEPENDENCY_PINNED
    BY FleetAssumption DEF FleetInv
  <2>2. loaded' = "yes" => PINNED \ installed = {} /\ DEPENDENCY_PINNED \ installed = {}
    BY DEF Load, checkConsensusRuntime, checkConsensusDependencies, mismatches
  <2> QED
    BY <2>1, <2>2
<1> QED
  BY <1>1 DEF FleetInv, Load, nodeLimit

\* A cache holds the source of its own mask, so cached data cannot be another's.
LEMMA ExecStep ==
  ASSUME FleetInv, NEW block \in Blocks, NEW stored \in BOOLEAN, Exec(block, stored)
  PROVE  FleetInv'
<1> DEFINE mask == executionHarnessMask(block)
<1>1. CachedFor(mask) \in {NoData, sourceFor(mask)}
  BY DEF FleetInv, CachedFor
<1>2. compileScript(sourceFor(mask), CachedFor(mask)) = {sourceFor(mask)}
  BY <1>1 DEF compileScript
<1>3. /\ loaded = "yes" /\ StoreCachedData(mask, sourceFor(mask), stored)
      /\ lastExec' = ExecOf(block, nodeLimit)
      /\ UNCHANGED <<installed, maxCpuTimeMs, loaded>>
  BY <1>2 DEF Exec, ExecOf
<1>4. harnessCachedData' \in {NoData, sourceFor({})}
  BY <1>3 DEF StoreCachedData, FleetInv
<1>5. \A m \in DOMAIN armedHarnessCache' : armedHarnessCache'[m] = sourceFor(m)
  BY <1>3 DEF StoreCachedData, FleetInv
<1>6. nodeLimit' = nodeLimit
  BY <1>3 DEF nodeLimit
<1> QED
  BY <1>3, <1>4, <1>5, <1>6 DEF FleetInv

\* Every step keeps the invariant of the validator.
LEMMA FleetStep == FleetInv /\ [FleetNext]_fleetVars => FleetInv'
<1> SUFFICES ASSUME FleetInv, [FleetNext]_fleetVars PROVE FleetInv'
  OBVIOUS
<1>1. CASE Restart
  BY <1>1 DEF Restart, FleetInv, nodeLimit
<1>2. CASE UNCHANGED fleetVars
  BY <1>2 DEF fleetVars, FleetInv, nodeLimit
<1> QED
  BY <1>1, <1>2, LoadStep, ExecStep DEF FleetNext

\* Under the invariant the block decides what ran.
LEMMA FleetDecides ==
  ASSUME FleetInv
  PROVE  BlockDecides
<1> SUFFICES ASSUME lastExec.done PROVE BlockDecides
  BY DEF BlockDecides
<1>1. PICK b \in Blocks : lastExec = ExecOf(b, nodeLimit)
  BY DEF FleetInv
<1>2. PICK mask : mask = executionHarnessMask(b)
  OBVIOUS
<1>3. /\ lastExec.block = b /\ lastExec.code = sourceFor(mask)
      /\ lastExec.globals = ExecutionGlobals(b) /\ lastExec.gates = MeteringGates(b)
      /\ lastExec.budget = resolveWallClockBudgetMs(isConsensusWallClockActive(b), nodeLimit)
  BY <1>1, <1>2 DEF ExecOf
<1>4. mask \in Masks
  BY <1>2, MaskIs
<1>5. RanWith(sourceFor(mask), mask) /\ ArmedBy(sourceFor(mask)) = mask
  BY <1>4, DerivationAssumption DEF DerivedAsArmed
<1>6. b.height \in Int /\ b.time \in Int /\ b.time < NEVER /\ maxCpuTimeMs \in Nat
  BY FleetAssumption DEF FleetInv
<1>7. /\ b.network = "regtest" => mask = RuleNames
      /\ b.network \notin {"testnet", "regtest"} => mask = {}
  BY <1>2, <1>6, RegtestArmsAll, MainnetArmsNone
<1>8. /\ "nativeStackTerminal" \in mask <=> isNativeStackTerminalActive(b)
      /\ "resourceFaultSignal" \in mask <=> isResourceFaultSignalActive(b)
  BY <1>2, MaskIs
<1>9. /\ isConsensusWallClockActive(b) => lastExec.budget = CONSENSUS_MAX_WALL_MS
      /\ lastExec.budget < watchdogMs
  <2>1. \A g, n \in Nat : /\ resolveWallClockBudgetMs(TRUE, n) = CONSENSUS_MAX_WALL_MS
                          /\ resolveWallClockBudgetMs(FALSE, n) = n
    BY DEF resolveWallClockBudgetMs
  <2>2. nodeLimit = IF maxCpuTimeMs = 0 THEN 30000 ELSE maxCpuTimeMs
    BY DEF nodeLimit, CONSENSUS_MAX_WALL_MS
  <2>3. watchdogMs = (IF maxCpuTimeMs > 30000 THEN maxCpuTimeMs ELSE 30000) + 5000
    BY DEF watchdogMs, CONSENSUS_MAX_WALL_MS
  <2>4. lastExec.budget = IF isConsensusWallClockActive(b) THEN 30000 ELSE nodeLimit
    BY <1>3 DEF resolveWallClockBudgetMs, CONSENSUS_MAX_WALL_MS
  <2> QED
    BY <1>6, <2>2, <2>3, <2>4 DEF CONSENSUS_MAX_WALL_MS
<1>10. installed = PINNED \cup DEPENDENCY_PINNED
  BY DEF FleetInv
<1> QED
  BY <1>2, <1>3, <1>5, <1>6, <1>7, <1>8, <1>9, <1>10, HalvesTogether DEF BlockDecides

\* What a contract runs in is its block's on every node that may run it: whatever
\* the process compiled before, was configured with or was restarted between, and
\* whatever the contract writes to the realm it was given (select.js,
\* string_result_meter.js, sandbox.js, contract_wrapper.js).
THEOREM EnvironmentIsTheBlocks == FleetSpec /\ RealmSpec => []EnvironmentFixed
<1>1. FleetSpec => []BlockDecides
  <2>1. FleetInit => FleetInv
    BY DEF FleetInit, FleetInv, NoExec
  <2> QED
    BY <2>1, FleetStep, FleetDecides, PTL DEF FleetSpec
<1>2. BlockDecides /\ RealmSealed => EnvironmentFixed
  BY DEF EnvironmentFixed
<1> QED
  BY <1>1, <1>2, RealmStaysSealed, PTL
===============================================================================
