---------------------------- MODULE StringifyGuard ----------------------------
(***************************************************************************)
(* JSON.stringify inside the isolate, past the value-hook activation: the  *)
(* walk that runs every toJSON, replacer and getter of a value once,       *)
(* measures what they answer and hands the native serializer either the    *)
(* value itself, where nothing in it can run contract code, or a copy.     *)
(* (src/index/runtime/harness_part_2.js, _3.js, _4.js and, for calls made  *)
(* by a hook, src/index/armed_harness/json_stringify_reentry.js.)          *)
(*                                                                         *)
(* The hooks are contract code: they answer anything, throw, call          *)
(* JSON.stringify again and, in MutatingSpec, write to the objects that    *)
(* are being serialized.  So is the coercion of the third argument, which  *)
(* the native serializer makes once the walk is over, and which may write  *)
(* in both.  Keys are positions; their order is left out.                  *)
(***************************************************************************)
EXTENDS Integers, Sequences, FiniteSets

CONSTANTS
    Objects,        \* the contract's objects
    Heaps,          \* what they may hold when the first call is made
    Replacers,      \* kinds of second argument: "none", "fn", "list"
    Spaces,         \* kinds of third argument: "plain", "object" (one to coerce)
    KeyList,        \* the keys a replacer array names
    NR_DEPTH_LIMIT, \* deepest value the native serializer is given
    RSF_COPY_GAS,   \* price of a copied node
    ReentryRule,    \* the re-entry activation is armed
    MaxLevels,      \* bound: calls of JSON.stringify under way at once
    MaxHooks        \* bound: hooks that do more than answer a leaf

VARIABLES
    heap,           \* the contract's objects
    pools,          \* __rsfPools: frames of each nesting level
    forwardList,    \* __rsfForwardList
    stringifies,    \* the calls under way, innermost last
    natives,        \* what the last native call walked, and what was measured
    stackPoison,    \* __stackPoison
    hooksLeft

rsfVars == <<heap, pools, forwardList, stringifies, natives, stackPoison, hooksLeft>>
-------------------------------------------------------------------------------
(***************************************************************************)
(* Values.  A slot that is an accessor, a hole or missing is "get".        *)
(***************************************************************************)
NoObject == "none"

Plain(kind) == [kind |-> kind, obj |-> NoObject, arr |-> FALSE, kids |-> <<>>]
Leaf == Plain("leaf")
Skip == Plain("skip")
Wrap == Plain("wrap")
Get  == Plain("get")
Ref(o) == [Plain("ref") EXCEPT !.obj = o]
Copy(isArr, kids) == [Plain("copy") EXCEPT !.arr = isArr, !.kids = kids]

HasToJSON(v) == v.kind = "ref" /\ heap[v.obj].toJSON
Slot(o, k) == IF k <= Len(heap[o].slots) THEN heap[o].slots[k] ELSE Get

Answers == {Leaf, Skip, Wrap} \cup {Ref(o) : o \in Objects}

\* What a walk of a value yields: a leaf, null, an array or an object.
Tree(kind, kids) == [kind |-> kind, kids |-> kids]
LeafTree == Tree("leaf", <<>>)
NullTree == Tree("null", <<>>)
Put(kids, k, x) == [j \in DOMAIN kids \cup {k} |-> IF j = k THEN x ELSE kids[j]]
-------------------------------------------------------------------------------
(***************************************************************************)
(* The native serializer on value v, one level deeper than the bound at    *)
(* most: "code" where it would run contract code.                          *)
(***************************************************************************)
KeysOf(isArr, slots, list) ==
    IF ~isArr /\ list = "list" THEN KeyList ELSE [k \in DOMAIN slots |-> k]

RECURSIVE Serialized(_, _, _)
Serialized(v, list, depth) ==
    LET isRef == v.kind = "ref"
        isArr == IF isRef THEN heap[v.obj].arr ELSE v.arr
        kid(k) == IF isRef THEN Slot(v.obj, k) ELSE v.kids[k]
        keys  == IF isRef
                 THEN {KeysOf(isArr, heap[v.obj].slots, list)[k] :
                         k \in DOMAIN KeysOf(isArr, heap[v.obj].slots, list)}
                 ELSE DOMAIN v.kids
        shown == IF isArr THEN keys ELSE {k \in keys : kid(k).kind # "skip"}
    IN  CASE v.kind = "leaf" -> LeafTree
          [] v.kind = "skip" -> NullTree
          [] depth > NR_DEPTH_LIMIT -> Tree("deep", <<>>)
          [] v.kind \in {"get", "wrap"} \/ HasToJSON(v) -> Tree("code", <<>>)
          [] OTHER -> Tree(IF isArr THEN "arr" ELSE "obj",
                           [k \in shown |-> Serialized(kid(k), list, depth + 1)])
-------------------------------------------------------------------------------
(***************************************************************************)
(* One call: its frames live in the pool of its level, fi is the depth it  *)
(* has reached; i, key and cur are the slot on its way through the hooks.  *)
(* The trees the walk has measured so far are history.                     *)
(***************************************************************************)
Top == stringifies[Len(stringifies)]
WithTop(c) == [stringifies EXCEPT ![Len(stringifies)] = c]

\* Mutant: a nested call takes the frames of the call around it.
PoolShared(c) == 1

Pool(c) == IF ReentryRule THEN c.level ELSE 1

HooksOf(v, rep) ==
    IF HasToJSON(v) THEN "toJSON" ELSE IF rep = "fn" THEN "replacer" ELSE "commit"

\* __rsfStringifyReentrant, and the legacy wrapper, which has one pool for all.
Stringify(v, rep) ==
    /\ ~stackPoison
    /\ Len(stringifies) < MaxLevels
    /\ stringifies' = Append(stringifies,
          [level |-> 1 + Cardinality({j \in DOMAIN stringifies : stringifies[j].at # "space"}),
           value |-> v, rep |-> rep, outer |-> forwardList,
           fi |-> 0, i |-> 0, key |-> 0, at |-> HooksOf(v, rep), cur |-> v, ran |-> HooksOf(v, rep) # "commit",
           hooked |-> FALSE, seen |-> <<>>, res |-> Leaf, measured |-> LeafTree, list |-> "none",
           wrote |-> "no",
           gas |-> IF rep = "list" /\ Len(KeyList) > 1 THEN Len(KeyList) ELSE 0])
    /\ forwardList' = IF rep = "list" THEN "list" ELSE "none"
    /\ UNCHANGED <<heap, pools, natives, stackPoison>>

\* Bound: none after a call that wrote, for its heap is the first of another run.
CallStringify(v, rep) ==
    /\ stringifies = <<>> /\ natives.wrote = "no"
    /\ Stringify(v, rep)
    /\ UNCHANGED hooksLeft

\* The frame of the innermost call that is being filled.
RsfFrame(c) == pools[Pool(c)][c.fi]

\* materialize: the slots committed so far are read again.
Backfill(fr) ==
    LET again == {b \in (1 .. fr.done) \cap DOMAIN fr.keys : fr.isArr \/ Slot(fr.src, fr.keys[b]).kind # "skip"}
    IN  [k \in {fr.keys[b] : b \in again} |-> Slot(fr.src, k)]

Materialized(fr) == IF fr.copied THEN fr ELSE [fr EXCEPT !.copied = TRUE, !.kids = Backfill(fr)]
CopyPrice(fr) == IF fr.copied THEN 0 ELSE RSF_COPY_GAS

\* __rsfNewFrame: the first use of a frame of a nested pool is charged like a copy.
NewFramePrice(c, p) ==
    IF ReentryRule /\ c.level > 1 /\ c.fi + 1 \notin DOMAIN p THEN RSF_COPY_GAS ELSE 0

\* pushFrame: c enters the object v, under key k of the frame below.
PushFrame(c, ps, v, dirty, k, cost) ==
    LET o  == heap[v.obj]
        ks == KeysOf(o.arr, o.slots, c.rep)
        fr == [src |-> v.obj, isArr |-> o.arr, keys |-> ks, i |-> 1, done |-> 0,
               copied |-> dirty, kids |-> <<>>, pKey |-> k]
        p  == ps[Pool(c)]
    IN  IF c.fi + 1 > NR_DEPTH_LIMIT
        THEN stackPoison' = TRUE /\ stringifies' = <<>> /\ UNCHANGED pools
        ELSE /\ pools' = [ps EXCEPT ![Pool(c)] =
                    [j \in DOMAIN p \cup {c.fi + 1} |-> IF j = c.fi + 1 THEN fr ELSE p[j]]]
             /\ stringifies' = WithTop([c EXCEPT
                    !.fi = @ + 1, !.at = "walk", !.seen = Append(@, <<>>),
                    !.gas = @ + cost + NewFramePrice(c, p) + 1 + (IF Len(ks) > 1 THEN Len(ks) ELSE 0)
                              + (IF dirty THEN RSF_COPY_GAS ELSE 0)])
             /\ UNCHANGED stackPoison

\* The native serializer walks what the call made of its value.
Native(c) ==
    /\ natives' = [called |-> TRUE, walked |-> Serialized(c.res, c.list, 1),
                   measured |-> c.measured, value |-> c.value, rep |-> c.rep,
                   res |-> c.res, gas |-> c.gas, hooked |-> c.hooked,
                   level |-> c.level, wrote |-> c.wrote]
    /\ stringifies' = SubSeq(stringifies, 1, Len(stringifies) - 1)

\* The walk is over and its frames are given back; the native serializer gets
\* res, the list in force and the third argument, which it coerces first.  Nothing
\* before depends on that argument, so it is chosen here.
Resolved(c, res, measured) ==
    LET list == IF ReentryRule /\ c.rep # "list" THEN "none"
                ELSE IF ReentryRule THEN "list" ELSE forwardList
        done == [c EXCEPT !.at = "space", !.res = res, !.measured = measured, !.list = list]
    IN  /\ \/ "plain" \in Spaces /\ Native(done)
           \/ "object" \in Spaces /\ stringifies' = WithTop(done) /\ UNCHANGED natives
        /\ forwardList' = IF ReentryRule THEN c.outer ELSE forwardList
        /\ UNCHANGED <<heap, stackPoison, hooksLeft>>

\* The root's value has passed its hooks.
CommitRoot ==
    /\ stringifies # <<>> /\ Top.at = "commit" /\ Top.fi = 0
    /\ IF Top.cur.kind = "ref"
       THEN /\ PushFrame(Top, pools, Top.cur,
                         Top.rep = "fn" \/ (Top.ran /\ HasToJSON(Top.cur)), 0, 0)
            /\ UNCHANGED <<heap, forwardList, natives, hooksLeft>>
       ELSE /\ Resolved(Top, IF Top.cur.kind = "skip" THEN Skip ELSE Leaf,
                        IF Top.cur.kind = "skip" THEN NullTree ELSE LeafTree)
            /\ UNCHANGED pools

\* A slot is read once: a data slot from its descriptor, any other by a Get,
\* for which the holder is copied first.
ReadSlot ==
    /\ stringifies # <<>> /\ Top.at = "walk" /\ RsfFrame(Top).i <= Len(RsfFrame(Top).keys)
    /\ LET c  == Top
           fr == RsfFrame(c)
           k  == fr.keys[fr.i]
           v  == Slot(fr.src, k)
       IN  IF v.kind = "get"
           THEN /\ pools' = [pools EXCEPT ![Pool(c)][c.fi] = Materialized(fr)]
                /\ stringifies' = WithTop([c EXCEPT !.at = "get", !.ran = FALSE,
                                           !.i = fr.i, !.key = k, !.gas = @ + CopyPrice(fr)])
           ELSE /\ stringifies' = WithTop([c EXCEPT !.at = HooksOf(v, c.rep), !.cur = v,
                                           !.ran = HooksOf(v, c.rep) # "commit",
                                           !.i = fr.i, !.key = k])
                /\ UNCHANGED pools
    /\ UNCHANGED <<heap, forwardList, natives, stackPoison, hooksLeft>>

\* The slot's value has passed its hooks; what a hook or a wrapper answered
\* makes a copy of the holder.
CommitSlot ==
    /\ stringifies # <<>> /\ Top.at = "commit" /\ Top.fi > 0
    /\ LET c    == Top
           fr   == RsfFrame(c)
           v    == c.cur
           f2   == IF c.ran \/ v.kind = "wrap" THEN Materialized(fr) ELSE fr
           cost == IF c.ran \/ v.kind = "wrap" THEN CopyPrice(fr) ELSE 0
           skip == v.kind = "skip"
           kids == IF ~f2.copied \/ (skip /\ ~fr.isArr) THEN f2.kids
                   ELSE Put(f2.kids, c.key, IF skip THEN Skip ELSE Leaf)
           seen == IF skip /\ ~fr.isArr THEN c.seen
                   ELSE [c.seen EXCEPT ![c.fi] = Put(@, c.key, IF skip THEN NullTree ELSE LeafTree)]
       IN  IF v.kind = "ref"
           THEN PushFrame(c, [pools EXCEPT ![Pool(c)][c.fi] = [f2 EXCEPT !.i = c.i + 1]], v,
                          c.rep = "fn" \/ (c.ran /\ HasToJSON(v)), c.key, cost)
           ELSE /\ pools' = [pools EXCEPT ![Pool(c)][c.fi] =
                                [f2 EXCEPT !.i = c.i + 1, !.done = c.i, !.kids = kids]]
                /\ stringifies' = WithTop([c EXCEPT !.at = "walk", !.seen = seen,
                                           !.gas = @ + cost])
                /\ UNCHANGED stackPoison
    /\ UNCHANGED <<heap, forwardList, natives, hooksLeft>>

\* The object is done: it goes up by reference if nothing in it was copied.
PopFrame ==
    /\ stringifies # <<>> /\ Top.at = "walk" /\ RsfFrame(Top).i > Len(RsfFrame(Top).keys)
    /\ LET c    == Top
           fr   == RsfFrame(c)
           res  == IF fr.copied THEN Copy(fr.isArr, fr.kids) ELSE Ref(fr.src)
           tree == Tree(IF fr.isArr THEN "arr" ELSE "obj", c.seen[c.fi])
           rest == SubSeq(c.seen, 1, c.fi - 1)
       IN  IF c.fi = 1
           THEN Resolved(c, res, tree) /\ UNCHANGED pools
           ELSE LET below == pools[Pool(c)][c.fi - 1]
                    pf    == IF fr.copied THEN Materialized(below) ELSE below
                IN  /\ pools' = [pools EXCEPT ![Pool(c)][c.fi - 1] =
                            [pf EXCEPT !.done = pf.i - 1,
                                       !.kids = IF pf.copied THEN Put(@, fr.pKey, res) ELSE @]]
                    /\ stringifies' = WithTop([c EXCEPT !.fi = @ - 1,
                            !.seen = [rest EXCEPT ![c.fi - 1] = Put(@, fr.pKey, tree)],
                            !.gas = @ + (IF fr.copied THEN CopyPrice(below) ELSE 0)])
                    /\ UNCHANGED <<heap, forwardList, natives, stackPoison, hooksLeft>>
-------------------------------------------------------------------------------
(***************************************************************************)
(* The contract's hooks.                                                   *)
(***************************************************************************)
InHook == stringifies # <<>> /\ Top.at \in {"get", "toJSON", "replacer", "space"}

Spend(v) == IF v = Leaf THEN UNCHANGED hooksLeft ELSE hooksLeft > 0 /\ hooksLeft' = hooksLeft - 1

\* A getter answers into toJSON, toJSON into the replacer (__rsfResolve).
HookAnswers(v) ==
    /\ InHook /\ Top.at # "space" /\ Spend(v)
    /\ LET c    == Top
           next == CASE c.at = "get"    -> HooksOf(v, c.rep)
                     [] c.at = "toJSON" -> IF c.rep = "fn" THEN "replacer" ELSE "commit"
                     [] OTHER           -> "commit"
       IN  stringifies' = WithTop([c EXCEPT !.at = next, !.cur = v, !.hooked = TRUE,
              !.ran = c.at # "get" \/ next # "commit",
              !.gas = @ + (IF c.at = "get" THEN 0 ELSE 1)])
    /\ UNCHANGED <<heap, pools, forwardList, natives, stackPoison>>

\* valueOf or toString of the third argument answers.
SpaceAnswers ==
    /\ stringifies # <<>> /\ Top.at = "space"
    /\ Native(Top)
    /\ UNCHANGED <<heap, pools, forwardList, stackPoison, hooksLeft>>

\* An error ends the innermost call; the hook that made it may catch it.
HookThrows ==
    /\ InHook
    /\ stringifies' = SubSeq(stringifies, 1, Len(stringifies) - 1)
    /\ forwardList' = IF ReentryRule THEN Top.outer ELSE forwardList
    /\ UNCHANGED <<heap, pools, natives, stackPoison, hooksLeft>>

HookCalls(v, rep) ==
    /\ InHook /\ hooksLeft > 0
    /\ hooksLeft' = hooksLeft - 1
    /\ Stringify(v, rep)

\* A write is noted on every call under way: after its walk or in the midst of it.
\* What the last native call walked is forgotten.
HookWrites(o, k, v) ==
    /\ InHook /\ hooksLeft > 0
    /\ k \in DOMAIN heap[o].slots
    /\ hooksLeft' = hooksLeft - 1
    /\ heap' = [heap EXCEPT ![o].slots[k] = v]
    /\ natives' = [called |-> FALSE, wrote |-> "yes"]
    /\ stringifies' = [j \in DOMAIN stringifies |->
          [stringifies[j] EXCEPT !.wrote =
              IF stringifies[j].at = "space" /\ @ # "walking" THEN "late" ELSE "walking"]]
    /\ UNCHANGED <<pools, forwardList, stackPoison>>

\* In a call that a hook made, it would be a write in the midst of the call around it.
SpaceWrites(o, k, v) == Len(stringifies) = 1 /\ Top.at = "space" /\ HookWrites(o, k, v)

StringifyInit ==
    /\ heap \in Heaps
    /\ pools = [l \in 1 .. MaxLevels |-> <<>>]
    /\ forwardList = "none" /\ stringifies = <<>> /\ stackPoison = FALSE
    /\ natives = [called |-> FALSE, wrote |-> "no"]
    /\ hooksLeft = MaxHooks

StringifyNext ==
    \/ \E o \in Objects, rep \in Replacers : CallStringify(Ref(o), rep) \/ HookCalls(Ref(o), rep)
    \/ CommitRoot \/ ReadSlot \/ CommitSlot \/ PopFrame
    \/ \E v \in Answers : HookAnswers(v)
    \/ SpaceAnswers \/ HookThrows
    \/ \E o \in Objects, k \in 1 .. 2, v \in Answers : SpaceWrites(o, k, v)

StringifySpec == StringifyInit /\ [][StringifyNext]_rsfVars

\* The same, with hooks that write to the objects being serialized.
MutatingNext ==
    \/ StringifyNext
    \/ \E o \in Objects, k \in 1 .. 2, v \in Answers : HookWrites(o, k, v)

MutatingSpec == StringifyInit /\ [][MutatingNext]_rsfVars
-------------------------------------------------------------------------------
(***************************************************************************)
(* Properties.                                                             *)
(***************************************************************************)

\* __guardNativeDepth: what the guard before the value-hook activation charges
\* for the object o, met at depth d.
RECURSIVE guardNativeDepth(_, _)
guardNativeDepth(o, d) ==
    LET slots == heap[o].slots
        kids  == {k \in DOMAIN slots : slots[k].kind = "ref"}
        gas[K \in SUBSET kids] ==
            IF K = {} THEN 0
            ELSE LET k == CHOOSE k \in K : TRUE
                 IN  gas[K \ {k}] + guardNativeDepth(slots[k].obj, d + 1)
    IN  IF d > NR_DEPTH_LIMIT THEN 1
        ELSE 1 + (IF Len(slots) > 1 THEN Len(slots) ELSE 0) + gas[kids]

RECURSIVE Inert(_, _)
Inert(o, d) ==
    \/ d > NR_DEPTH_LIMIT
    \/ /\ ~heap[o].toJSON
       /\ \A k \in DOMAIN heap[o].slots :
            LET v == heap[o].slots[k]
            IN  v.kind \notin {"get", "wrap"} /\ (v.kind = "ref" => Inert(v.obj, d + 1))

\* "run every hook exactly ONCE here, measure the depth of what the hooks
\* actually produced, and hand the native serializer a value that cannot change
\* under it" (harness_part_2.js): the native serializer walks, slot for slot,
\* the value the hooks answered, no deeper than the bound, runs no contract code
\* and applies the keys of its own call, however the calls nest and end.
NativeWalksWhatWasMeasured == natives.called => natives.walked = natives.measured

RECURSIVE ByReference(_)
ByReference(v) == v.kind = "ref" \/ (v.kind = "copy" /\ \E k \in DOMAIN v.kids : ByReference(v.kids[k]))

\* What holds of it when contract code writes: the same, unless it wrote in the
\* midst of the walk (see the run that allows this), or later, from the coercion
\* of the third argument, while a part of the value was handed over by reference.
\* A value that was copied whole "cannot change under" the native serializer.
MeasuredUnlessWritten ==
    natives.called /\ (natives.wrote = "no" \/ (natives.wrote = "late" /\ ~ByReference(natives.res))) =>
        natives.walked = natives.measured

\* "a hook-free value takes byte-for-byte the pre-gate path for byte-for-byte the
\* pre-gate gas and allocates nothing" (harness_part_2.js); "the outermost pool is
\* charged exactly as before" (json_stringify_reentry.js).
InertAsBefore ==
    /\ natives.called /\ natives.level = 1 /\ natives.rep = "none" /\ ~natives.hooked
    /\ natives.wrote = "no" /\ Inert(natives.value.obj, 1)
    =>
        natives.res = natives.value /\ natives.gas = guardNativeDepth(natives.value.obj, 1)

StringifyIsSafe == MeasuredUnlessWritten /\ InertAsBefore
===============================================================================
