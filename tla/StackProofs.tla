----------------------------- MODULE StackProofs ------------------------------
(***************************************************************************)
(* The native stack rule for every limit, every weight of a function and   *)
(* any number of calls of the hooks by hand, by the contract or by a       *)
(* native that goes on to call it: the budget covers the functions on the  *)
(* native stack, and what is counted of the applies and spread calls; it   *)
(* is exact where the contract keeps its hands off; and the engine's own   *)
(* overflow ends the run.                                                  *)
(*                                                                         *)
(* The depth is restored from three records that are written long before   *)
(* they are read: the entry of a function (acts), the hold of a spread     *)
(* call (holds) and the local variable of the apply wrapper (p of its      *)
(* frame).  The invariant says of each record that it covers the frames    *)
(* that will still be there when it is read.  What makes this so is that   *)
(* the entry of a function stays on acts as long as its frame is on the    *)
(* stack: no token that the contract holds is the token of a frame.        *)
(***************************************************************************)
EXTENDS NativeStack, FiniteSetTheorems, ListLemmas

Depths == Nat
Tokens == Nat \ {0}

Entries == [depth : Depths, token : Tokens]
Holdings == [i : Sites, a : Nat, p : Depths]
Frames ==
    [kind : {"fn", "apply", "copies", "spread"}, live : Nat, token : Nat, p : Depths, q : Int,
     id : Sites \cup {0}, units : Nat, hook : BOOLEAN, leaked : BOOLEAN]
ThrownValues ==
    [thrown : BOOLEAN, origin : {"none", "overflow", "engine", "built", "object"},
     fresh : BOOLEAN, real : BOOLEAN, text : BOOLEAN]

BudgetTypeOK ==
    /\ stackDepth \in Depths
    /\ acts \in Seq(Entries)
    /\ holds \in Seq(Holdings)
    /\ applyAct \in Int
    /\ faulted \in BOOLEAN
    /\ frames \in Seq(Frames)
    /\ byHand \in SUBSET Tokens /\ IsFiniteSet(byHand)
    /\ handsLeft \in 0 .. MaxByHand

ValuesTypeOK == bound \in Nat /\ flying \in ThrownValues /\ kept \in ThrownValues

StackTypeOK == BudgetTypeOK /\ ValuesTypeOK
-------------------------------------------------------------------------------
(***************************************************************************)
(* The stack F, the entries A, the holds H, the tokens B in the contract's *)
(* hands and the depth D.                                                  *)
(***************************************************************************)
\* The host calls functions; a spread call is made by a function; what is on the
\* stack, with what an apply that copies has reserved, is within the limit.
BottomIsFunction(F) == Len(F) > 0 => F[1].kind = "fn"
SpreadInFunction(F) == \A j \in 1 .. Len(F) : F[j].kind = "spread" => j > 1 /\ F[j - 1].kind = "fn"
LiveInLimit(F) == \A j \in 1 .. Len(F) : F[j].live + F[j].units <= NR_LIMIT
CopiesHoldNothing(F) == \A j \in 2 .. Len(F) : F[j].kind = "copies" => F[j].live = F[j - 1].live
LiveGrows(F) == \A i, j \in 1 .. Len(F) : i < j => F[i].live <= F[j].live

\* The functions on the stack have their entries on acts, in the same order, and
\* no token of theirs is in the contract's hands.
HasEntry(F, A, B) ==
    \A j \in 1 .. Len(F) :
        IF F[j].kind = "fn" THEN F[j].token \notin B /\ \E k \in 1 .. Len(A) : F[j].token = A[k].token
        ELSE F[j].token = 0
EntriesInOrder(F, A) ==
    \A i, j \in 1 .. Len(F), k, l \in 1 .. Len(A) :
        i < j /\ F[i].token = A[k].token /\ F[j].token = A[l].token => k < l
TokensDiffer(A) == \A k, l \in 1 .. Len(A) : A[k].token = A[l].token => k = l

\* Holds are made in the innermost activation, so they are in order.
HoldsOfActivations(A, H) == \A h \in 1 .. Len(H) : H[h].a <= Len(A)
HoldsInOrder(H) == \A g, h \in 1 .. Len(H) : g < h => H[g].a <= H[h].a

\* The depth covers every function on the stack, and a native frame on top of it
\* with what is counted of it.
FunctionsCovered(F, D) == \A j \in 1 .. Len(F) : F[j].kind = "fn" => F[j].live <= D
TopCovered(F, D) == Len(F) > 0 => F[Len(F)].live <= D

\* So does every record that the depth may be restored from, for the frames that
\* will be there: those below the frame it was made for, the functions entered
\* before the entry, those of the activation that made the hold.
ApplyCovers(F) == \A j \in 2 .. Len(F) : F[j].kind = "apply" => F[j - 1].live <= F[j].p
EntryCoversBelow(F, A) ==
    \A j \in 2 .. Len(F), k \in 1 .. Len(A) :
        F[j].token = A[k].token => F[j - 1].live <= A[k].depth
EntryCovers(F, A) ==
    \A j \in 1 .. Len(F), k, l \in 1 .. Len(A) :
        F[j].token = A[l].token /\ l < k => F[j].live <= A[k].depth
HoldCovers(F, A, H) ==
    \A j \in 1 .. Len(F), l \in 1 .. Len(A), h \in 1 .. Len(H) :
        F[j].token = A[l].token /\ l <= H[h].a => F[j].live <= H[h].p

FramesOK(F) ==
    /\ BottomIsFunction(F) /\ SpreadInFunction(F)
    /\ LiveInLimit(F) /\ CopiesHoldNothing(F) /\ LiveGrows(F)
EntriesOK(F, A, B) == HasEntry(F, A, B) /\ EntriesInOrder(F, A) /\ TokensDiffer(A)
HoldsOK(A, H) == HoldsOfActivations(A, H) /\ HoldsInOrder(H)
DepthOK(F, D) == FunctionsCovered(F, D) /\ TopCovered(F, D)
RecordsOK(F, A, H) ==
    ApplyCovers(F) /\ EntryCoversBelow(F, A) /\ EntryCovers(F, A) /\ HoldCovers(F, A, H)

Covered(F, A, H, B, D) ==
    FramesOK(F) /\ EntriesOK(F, A, B) /\ HoldsOK(A, H) /\ DepthOK(F, D) /\ RecordsOK(F, A, H)
-------------------------------------------------------------------------------
(***************************************************************************)
(* Hands off: no hook was called by hand, and there was no fault.          *)
(***************************************************************************)
HandsOff == handsLeft = MaxByHand /\ ~faulted
Clear(F, n) == \A m \in 1 .. n : F[m].kind = "fn" => ~F[m].leaked
LiveAt(F, n) == IF n = 0 THEN 0 ELSE F[n].live

\* Every entry is the entry of a frame, and what is restored is exact.
EntryHasFrame(F, A) == \A k \in 1 .. Len(A) : \E j \in 1 .. Len(F) : F[j].token = A[k].token
ApplyExact(F) ==
    \A j \in 1 .. Len(F) : Clear(F, j - 1) /\ F[j].kind = "apply" => F[j].p = LiveAt(F, j - 1)
EntryExact(F, A) ==
    \A j \in 1 .. Len(F), k \in 1 .. Len(A) :
        Clear(F, j - 1) /\ F[j].token = A[k].token => A[k].depth = LiveAt(F, j - 1)

\* The one hold of a function that leaked none is that of the spread call it is in.
HoldIsOfSpread(F, A, H) ==
    \A h \in 1 .. Len(H), j \in 1 .. Len(F) :
        H[h].a > 0 /\ F[j].token = A[H[h].a].token /\ ~F[j].leaked =>
          /\ j < Len(F) /\ F[j + 1].kind = "spread" /\ F[j + 1].id = H[h].i
          /\ Clear(F, j) => H[h].p = F[j].live
HoldIsSingle(F, A, H) ==
    \A g, h \in 1 .. Len(H), j \in 1 .. Len(F) :
        H[h].a > 0 /\ F[j].token = A[H[h].a].token /\ ~F[j].leaked /\ H[g].a = H[h].a => g = h
SpreadHasHold(F, A, H) ==
    \A j \in 2 .. Len(F) :
        F[j].kind = "spread" /\ ~F[j - 1].leaked =>
          \E h \in 1 .. Len(H) : H[h].a > 0 /\ F[j - 1].token = A[H[h].a].token
DepthExact(F, D) == Clear(F, Len(F)) => D = LiveAt(F, Len(F))

Exact(F, A, H, D) ==
    /\ EntryHasFrame(F, A) /\ ApplyExact(F) /\ EntryExact(F, A)
    /\ HoldIsOfSpread(F, A, H) /\ HoldIsSingle(F, A, H) /\ SpreadHasHold(F, A, H)
    /\ DepthExact(F, D)
-------------------------------------------------------------------------------
BudgetInv ==
    /\ BudgetTypeOK
    /\ Covered(frames, acts, holds, byHand, stackDepth)
    /\ HandsOff => Exact(frames, acts, holds, stackDepth)

\* Exactly the engine's overflow looks like one, as long as it flies; and it cannot
\* leave the stack: at the bottom is a function, whose guard looks at it.
ThrownInv ==
    /\ kept.origin # "overflow" /\ ~kept.fresh
    /\ ~faulted /\ ~flying.thrown => flying = Nothing
    /\ IsOverflow(flying) <=> flying.origin = "overflow"
    /\ flying.thrown /\ frames = <<>> => ~flying.fresh
    /\ faulted => frames = <<>> /\ ~flying.thrown /\ flying.origin \in {"none", "overflow"}

StackInv == BudgetInv /\ ValuesTypeOK /\ ThrownInv
-------------------------------------------------------------------------------
(***************************************************************************)
(* Operators of the model.                                                 *)
(***************************************************************************)
\* What is left of a stack when its top goes.
LEMMA FrontOf ==
  ASSUME NEW S, NEW s \in Seq(S), s # <<>>
  PROVE  /\ Front1(s) \in Seq(S) /\ Len(Front1(s)) = Len(s) - 1
         /\ \A i \in 1 .. Len(s) - 1 : Front1(s)[i] = s[i]
         /\ Len(s) \in Nat /\ Len(s) > 0 /\ Last1(s) = s[Len(s)] /\ s[Len(s)] \in S
<1>1. Len(s) \in Nat /\ Len(s) > 0 /\ s[Len(s)] \in S
  BY EmptySeq, LenProperties, ElementOfSeq
<1>2. Len(s) - 1 \in 0 .. Len(s)
  BY <1>1
<1> QED
  BY <1>1, <1>2, PrefixOf DEF Front1, Last1

\* The holds that __nstDepthExit keeps are those of the activations below, all of
\* them, since holds are in the order of their activations.
LEMMA HoldsBelowKeeps ==
  ASSUME BudgetTypeOK, HoldsOK(acts, holds)
  PROVE  /\ HoldsBelow \in Seq(Holdings) /\ Len(HoldsBelow) \in 0 .. Len(holds)
         /\ \A h \in 1 .. Len(HoldsBelow) : HoldsBelow[h] = holds[h] /\ holds[h].a < Len(acts)
         /\ \A h \in 1 .. Len(holds) : h > Len(HoldsBelow) => holds[h].a >= Len(acts)
<1> DEFINE rest == {n \in 0 .. Len(holds) : \A k \in n + 1 .. Len(holds) : holds[k].a >= Len(acts)}
           n == CHOOSE x \in rest : \A y \in rest : x <= y
<1>0. /\ Len(holds) \in Nat /\ holds \in Seq(Holdings) /\ Len(acts) \in Nat
      /\ \A h \in 1 .. Len(holds) : holds[h].a \in Nat
  <2>1. \A h \in 1 .. Len(holds) : holds[h] \in Holdings
    BY ElementOfSeq DEF BudgetTypeOK
  <2> QED
    BY <2>1, LenProperties DEF BudgetTypeOK, Holdings
<1>1. Len(holds) \in rest /\ rest \subseteq Nat
  BY <1>0
<1>2. n \in rest /\ \A y \in rest : n <= y
  BY <1>1, LeastNumber
<1>3. HoldsBelow = SubSeq(holds, 1, n)
  BY DEF HoldsBelow, ActN
<1> HIDE DEF n
<1>4. n \in 0 .. Len(holds) /\ \A k \in n + 1 .. Len(holds) : holds[k].a >= Len(acts)
  BY <1>2
<1>5. n > 0 => holds[n].a < Len(acts)
  <2> SUFFICES ASSUME n > 0, ~(holds[n].a < Len(acts)) PROVE FALSE
    OBVIOUS
  <2>1. \A k \in (n - 1) + 1 .. Len(holds) : holds[k].a >= Len(acts)
    BY <1>0, <1>4
  <2>2. n - 1 \in rest
    BY <1>0, <1>4, <2>1
  <2>3. n <= n - 1
    BY <1>2, <2>2
  <2> QED
    BY <1>0, <1>4, <2>3
<1> HIDE DEF rest
<1>6. /\ HoldsBelow \in Seq(Holdings) /\ Len(HoldsBelow) = n
      /\ \A h \in 1 .. n : HoldsBelow[h] = holds[h]
  BY <1>0, <1>3, <1>4, PrefixOf
<1>7. \A h \in 1 .. n : holds[h].a < Len(acts)
  BY <1>0, <1>4, <1>5 DEF HoldsOK, HoldsInOrder
<1> QED
  BY <1>0, <1>4, <1>6, <1>7

\* A token that __nstDepthEnter makes is not one that anything holds.
LEMMA FreshTokenIsFresh ==
  ASSUME BudgetTypeOK
  PROVE  /\ FreshToken \in Tokens /\ FreshToken \notin byHand
         /\ \A k \in 1 .. Len(acts) : acts[k].token # FreshToken
         /\ \A j \in 1 .. Len(frames) : frames[j].token # FreshToken
<1> DEFINE A == {acts[k].token : k \in DOMAIN acts}
           F == {frames[k].token : k \in DOMAIN frames}
           held == A \cup F \cup byHand
           c == Cardinality(held)
<1>1. DOMAIN acts = 1 .. Len(acts) /\ DOMAIN frames = 1 .. Len(frames)
      /\ Len(acts) \in Nat /\ Len(frames) \in Nat
  BY LenProperties DEF BudgetTypeOK
<1>2. IsFiniteSet(1 .. Len(acts)) /\ IsFiniteSet(1 .. Len(frames))
  BY <1>1, FS_Interval
<1>3. IsFiniteSet(A) /\ IsFiniteSet(F)
  <2>1. ASSUME NEW s, DOMAIN s = 1 .. Len(s), Len(s) \in Nat, IsFiniteSet(1 .. Len(s))
        PROVE  IsFiniteSet({s[k].token : k \in DOMAIN s})
    <3> DEFINE T == {s[k].token : k \in DOMAIN s}
               f == [k \in 1 .. Len(s) |-> s[k].token]
    <3>1. f \in Surjection(1 .. Len(s), T)
      BY <2>1 DEF Surjection
    <3> HIDE DEF T, f
    <3>2. IsFiniteSet(T)
      BY <2>1, <3>1, FS_Surjection
    <3> QED
      BY <3>2 DEF T
  <2> QED
    BY <1>1, <1>2, <2>1
<1> HIDE DEF A, F
<1>4. IsFiniteSet(held)
  BY <1>3, FS_Union DEF BudgetTypeOK
<1> HIDE DEF held
<1>5. c \in Nat
  BY <1>4, FS_CardinalityType
<1> HIDE DEF c
<1>6. \E t \in 1 .. c + 1 : t \notin held
  <2> SUFFICES ASSUME 1 .. c + 1 \subseteq held PROVE FALSE
    OBVIOUS
  <2>1. Cardinality(1 .. c + 1) <= c
    BY <1>4, FS_Subset DEF c
  <2>2. Cardinality(1 .. c + 1) = c + 1
    BY <1>5, FS_Interval
  <2> QED
    BY <1>5, <2>1, <2>2
<1>7. FreshToken = CHOOSE t \in 1 .. c + 1 : t \notin held
  BY DEF FreshToken, c, held, A, F
<1>8. FreshToken \in 1 .. c + 1 /\ FreshToken \notin held
  BY <1>6, <1>7
<1>9. FreshToken \in Tokens
  BY <1>5, <1>8 DEF Tokens
<1> QED
  BY <1>1, <1>8, <1>9 DEF held, A, F
-------------------------------------------------------------------------------
(***************************************************************************)
(* What keeps the stack covered.  One lemma for each way in which the      *)
(* frames, the entries, the holds or the depth change.                     *)
(***************************************************************************)
Popped(s, t) == Len(s) > 0 /\ Len(t) = Len(s) - 1 /\ \A i \in 1 .. Len(t) : t[i] = s[i]
Pushed(s, t, x) == Len(t) = Len(s) + 1 /\ t[Len(t)] = x /\ \A i \in 1 .. Len(s) : t[i] = s[i]
Cut(s, t) == Len(t) <= Len(s) /\ \A i \in 1 .. Len(t) : t[i] = s[i]

TypedFrames(F) ==
    /\ Len(F) \in Nat
    /\ \A j \in 1 .. Len(F) :
         F[j].live \in Nat /\ F[j].token \in Nat /\ F[j].p \in Nat /\ F[j].units \in Nat
TypedEntries(A) ==
    Len(A) \in Nat /\ \A k \in 1 .. Len(A) : A[k].depth \in Nat /\ A[k].token \in Nat \ {0}
TypedHolds(H) ==
    Len(H) \in Nat /\ \A h \in 1 .. Len(H) : H[h].a \in Nat /\ H[h].p \in Nat

\* A frame goes: what is said of the frames below it stays true, and their
\* functions keep their entries.
LEMMA PopFrame ==
  ASSUME NEW F, NEW G, NEW A, NEW H, NEW B,
         TypedFrames(F), Len(G) \in Nat, TypedEntries(A), TypedHolds(H), Popped(F, G),
         FramesOK(F), EntriesOK(F, A, B), RecordsOK(F, A, H)
  PROVE  FramesOK(G) /\ EntriesOK(G, A, B) /\ RecordsOK(G, A, H)
<1>0. /\ Len(F) \in Nat /\ Len(F) > 0 /\ Len(G) = Len(F) - 1
      /\ \A i \in 1 .. Len(G) : i \in 1 .. Len(F) /\ i < Len(F) /\ G[i] = F[i]
  BY DEF Popped, TypedFrames
<1>1. BottomIsFunction(G)
  BY <1>0 DEF BottomIsFunction, FramesOK
<1>2. SpreadInFunction(G)
  BY <1>0 DEF SpreadInFunction, FramesOK
<1>3. LiveInLimit(G)
  BY <1>0 DEF LiveInLimit, FramesOK
<1>b. CopiesHoldNothing(G)
  BY <1>0 DEF CopiesHoldNothing, FramesOK
<1>4. LiveGrows(G)
  BY <1>0 DEF LiveGrows, FramesOK
<1>5. HasEntry(G, A, B)
  BY <1>0, Zenon DEF HasEntry, EntriesOK
<1>6. EntriesInOrder(G, A)
  BY <1>0 DEF EntriesInOrder, EntriesOK
<1>7. ApplyCovers(G)
  BY <1>0 DEF ApplyCovers, RecordsOK
<1>8. EntryCoversBelow(G, A)
  BY <1>0 DEF EntryCoversBelow, RecordsOK
<1>9. EntryCovers(G, A)
  BY <1>0 DEF EntryCovers, RecordsOK
<1>10. HoldCovers(G, A, H)
  BY <1>0 DEF HoldCovers, RecordsOK
<1> QED
  BY <1>1, <1>2, <1>3, <1>b, <1>4, <1>5, <1>6, <1>7, <1>8, <1>9, <1>10, Zenon
     DEF FramesOK, EntriesOK, RecordsOK

\* Holds go, from the top.
LEMMA CutHolds ==
  ASSUME NEW F, NEW A, NEW H, NEW K, TypedHolds(H), Len(K) \in Nat, Cut(H, K),
         HoldsOK(A, H), RecordsOK(F, A, H)
  PROVE  HoldsOK(A, K) /\ RecordsOK(F, A, K)
<1>0. \A i \in 1 .. Len(K) : i \in 1 .. Len(H) /\ K[i] = H[i]
  BY DEF Cut, TypedHolds
<1>1. HoldsOfActivations(A, K)
  BY <1>0 DEF HoldsOfActivations, HoldsOK
<1>2. HoldsInOrder(K)
  BY <1>0 DEF HoldsInOrder, HoldsOK
<1>3. HoldCovers(F, A, K)
  BY <1>0 DEF HoldCovers, RecordsOK
<1> QED
  BY <1>1, <1>2, <1>3, Zenon DEF HoldsOK, RecordsOK

\* The innermost activation ends, with all of its holds, and it is not that of a
\* frame: the depth at its entry covers all functions on the stack.
LEMMA PopEntry ==
  ASSUME NEW F, NEW A, NEW C, NEW H, NEW B,
         TypedFrames(F), TypedEntries(A), Len(C) \in Nat, TypedHolds(H), Popped(A, C),
         \A j \in 1 .. Len(F) : F[j].token # A[Len(A)].token,
         \A h \in 1 .. Len(H) : H[h].a < Len(A),
         EntriesOK(F, A, B), HoldsOK(A, H), RecordsOK(F, A, H)
  PROVE  /\ EntriesOK(F, C, B) /\ HoldsOK(C, H) /\ RecordsOK(F, C, H)
         /\ FunctionsCovered(F, A[Len(A)].depth)
<1>0. /\ Len(A) \in Nat /\ Len(A) > 0 /\ Len(C) = Len(A) - 1
      /\ \A i \in 1 .. Len(C) : i \in 1 .. Len(A) /\ i < Len(A) /\ C[i] = A[i]
      /\ \A i \in 1 .. Len(A) : i = Len(A) \/ i \in 1 .. Len(C)
  BY DEF Popped, TypedEntries
<1>1. HasEntry(F, C, B)
  <2> SUFFICES ASSUME NEW j \in 1 .. Len(F)
               PROVE  IF F[j].kind = "fn"
                      THEN F[j].token \notin B /\ \E k \in 1 .. Len(C) : F[j].token = C[k].token
                      ELSE F[j].token = 0
    BY DEF HasEntry
  <2>1. CASE F[j].kind = "fn"
    <3>1. F[j].token \notin B /\ \E k \in 1 .. Len(A) : F[j].token = A[k].token
      BY <2>1 DEF EntriesOK, HasEntry
    <3>2. PICK k \in 1 .. Len(A) : F[j].token = A[k].token
      BY <3>1
    <3>3. k \in 1 .. Len(C) /\ F[j].token = C[k].token
      BY <3>2, <1>0
    <3> QED
      BY <2>1, <3>1, <3>3
  <2>2. CASE F[j].kind # "fn"
    BY <2>2 DEF EntriesOK, HasEntry
  <2> QED
    BY <2>1, <2>2
<1>2. EntriesInOrder(F, C)
  BY <1>0 DEF EntriesInOrder, EntriesOK
<1>3. TokensDiffer(C)
  BY <1>0 DEF TokensDiffer, EntriesOK
<1>4. HoldsOfActivations(C, H)
  BY <1>0 DEF HoldsOfActivations, TypedHolds
<1>5. EntryCoversBelow(F, C)
  BY <1>0 DEF EntryCoversBelow, RecordsOK
<1>6. EntryCovers(F, C)
  BY <1>0 DEF EntryCovers, RecordsOK
<1>7. HoldCovers(F, C, H)
  BY <1>0 DEF HoldCovers, RecordsOK
<1>8. FunctionsCovered(F, A[Len(A)].depth)
  <2> SUFFICES ASSUME NEW j \in 1 .. Len(F), F[j].kind = "fn"
               PROVE  F[j].live <= A[Len(A)].depth
    BY DEF FunctionsCovered
  <2>1. PICK k \in 1 .. Len(A) : F[j].token = A[k].token
    BY DEF EntriesOK, HasEntry
  <2>2. k < Len(A) /\ Len(A) \in 1 .. Len(A)
    BY <2>1, <1>0, SMTT(30)
  <2> QED
    BY <2>1, <2>2 DEF RecordsOK, EntryCovers
<1> QED
  BY <1>1, <1>2, <1>3, <1>4, <1>5, <1>6, <1>7, <1>8, Zenon DEF EntriesOK, HoldsOK, RecordsOK

\* A hold is made in the innermost activation; what it restores covers all
\* functions on the stack.
LEMMA PushHold ==
  ASSUME NEW F, NEW A, NEW H, NEW K, NEW x, NEW B, TypedFrames(F), TypedEntries(A), TypedHolds(H),
         Pushed(H, K, x), x.a = Len(A), x.p \in Nat,
         EntriesOK(F, A, B), HoldsOK(A, H), RecordsOK(F, A, H), FunctionsCovered(F, x.p)
  PROVE  HoldsOK(A, K) /\ RecordsOK(F, A, K)
<1>0. /\ Len(H) \in Nat /\ Len(K) = Len(H) + 1 /\ K[Len(K)] = x /\ Len(A) \in Nat
      /\ \A i \in 1 .. Len(K) : i = Len(K) \/ (i \in 1 .. Len(H) /\ K[i] = H[i] /\ K[i].a \in Nat)
  BY DEF Pushed, TypedHolds, TypedEntries
<1>1. HoldsOfActivations(A, K)
  BY <1>0 DEF HoldsOfActivations, HoldsOK
<1>2. HoldsInOrder(K)
  BY <1>0 DEF HoldsInOrder, HoldsOfActivations, HoldsOK
<1>3. HoldCovers(F, A, K)
  <2> SUFFICES ASSUME NEW j \in 1 .. Len(F), NEW l \in 1 .. Len(A), NEW h \in 1 .. Len(K),
                      F[j].token = A[l].token, l <= K[h].a
               PROVE  F[j].live <= K[h].p
    BY DEF HoldCovers
  <2>1. CASE h = Len(K)
    <3>1. F[j].kind = "fn"
      BY DEF EntriesOK, HasEntry, TypedEntries
    <3> QED
      BY <3>1, <2>1, <1>0 DEF FunctionsCovered
  <2>2. CASE h # Len(K)
    BY <2>2, <1>0 DEF HoldCovers, RecordsOK
  <2> QED
    BY <2>1, <2>2
<1> QED
  BY <1>1, <1>2, <1>3, Zenon DEF HoldsOK, RecordsOK

\* A native frame is pushed: an apply, one that copies, or a spread call.
LEMMA PushNative ==
  ASSUME NEW F, NEW G, NEW A, NEW H, NEW B, NEW x,
         TypedFrames(F), TypedEntries(A), TypedHolds(H), Pushed(F, G, x), Len(F) > 0,
         x.kind # "fn", x.token = 0, x.live \in Nat, x.live >= F[Len(F)].live,
         x.live + x.units <= NR_LIMIT,
         x.kind = "copies" => x.live = F[Len(F)].live,
         x.kind = "apply" => F[Len(F)].live <= x.p,
         x.kind = "spread" => F[Len(F)].kind = "fn",
         FramesOK(F), EntriesOK(F, A, B), RecordsOK(F, A, H)
  PROVE  FramesOK(G) /\ EntriesOK(G, A, B) /\ RecordsOK(G, A, H)
<1>0. /\ Len(F) \in Nat /\ Len(G) = Len(F) + 1 /\ G[Len(G)] = x /\ Len(F) \in 1 .. Len(F)
      /\ Len(A) \in Nat /\ G[Len(F)] = F[Len(F)]
      /\ \A i \in 1 .. Len(G) : i = Len(G) \/ (i \in 1 .. Len(F) /\ G[i] = F[i])
  BY DEF Pushed, TypedFrames, TypedEntries
<1>t. \A k \in 1 .. Len(A) : x.token # A[k].token
  BY DEF TypedEntries
<1>l. \A i \in 1 .. Len(F) : F[i].live <= x.live
  BY <1>0 DEF FramesOK, LiveGrows, TypedFrames
<1>1. BottomIsFunction(G)
  BY <1>0 DEF BottomIsFunction, FramesOK
<1>2. SpreadInFunction(G)
  BY <1>0 DEF SpreadInFunction, FramesOK
<1>3. LiveInLimit(G)
  BY <1>0 DEF LiveInLimit, FramesOK
<1>b. CopiesHoldNothing(G)
  BY <1>0 DEF CopiesHoldNothing, FramesOK
<1>4. LiveGrows(G)
  BY <1>0, <1>l DEF LiveGrows, FramesOK
<1>5. HasEntry(G, A, B)
  BY <1>0 DEF HasEntry, EntriesOK
<1>6. EntriesInOrder(G, A)
  BY <1>0, <1>t, SMTT(30) DEF EntriesInOrder, EntriesOK
<1>7. ApplyCovers(G)
  BY <1>0 DEF ApplyCovers, RecordsOK
<1>8. EntryCoversBelow(G, A)
  <2>1. SUFFICES ASSUME NEW j \in 2 .. Len(G), NEW k \in 1 .. Len(A), G[j].token = A[k].token
                 PROVE  G[j - 1].live <= A[k].depth
    BY DEF EntryCoversBelow
  <2>2. j # Len(G)
    BY <2>1, <1>0, <1>t
  <2>3. j \in 2 .. Len(F) /\ G[j] = F[j] /\ G[j - 1] = F[j - 1]
    BY <2>2, <1>0
  <2> QED
    BY <2>1, <2>3 DEF EntryCoversBelow, RecordsOK
<1>9. EntryCovers(G, A)
  <2>1. SUFFICES ASSUME NEW j \in 1 .. Len(G), NEW k \in 1 .. Len(A), NEW l \in 1 .. Len(A),
                        G[j].token = A[l].token, l < k
                 PROVE  G[j].live <= A[k].depth
    BY DEF EntryCovers
  <2>2. j \in 1 .. Len(F) /\ G[j] = F[j]
    BY <2>1, <1>0, <1>t
  <2> QED
    BY <2>1, <2>2 DEF EntryCovers, RecordsOK
<1>10. HoldCovers(G, A, H)
  <2>1. SUFFICES ASSUME NEW j \in 1 .. Len(G), NEW l \in 1 .. Len(A), NEW h \in 1 .. Len(H),
                        G[j].token = A[l].token, l <= H[h].a
                 PROVE  G[j].live <= H[h].p
    BY DEF HoldCovers
  <2>2. j \in 1 .. Len(F) /\ G[j] = F[j]
    BY <2>1, <1>0, <1>t
  <2> QED
    BY <2>1, <2>2 DEF HoldCovers, RecordsOK
<1> QED
  BY <1>1, <1>2, <1>3, <1>b, <1>4, <1>5, <1>6, <1>7, <1>8, <1>9, <1>10, Zenon
     DEF FramesOK, EntriesOK, RecordsOK

\* A function is entered: a frame and its entry, with a token of its own.
LEMMA PushFunction ==
  ASSUME NEW F, NEW G, NEW A, NEW C, NEW H, NEW B, NEW x, NEW e,
         TypedFrames(F), TypedEntries(A), TypedHolds(H), Pushed(F, G, x), Pushed(A, C, e),
         x.kind = "fn", x.live \in Nat, x.live + x.units <= NR_LIMIT,
         x.token = e.token, e.token # 0, e.token \notin B,
         \A k \in 1 .. Len(A) : A[k].token # e.token,
         \A j \in 1 .. Len(F) : F[j].token # e.token,
         Len(F) > 0 => x.live >= F[Len(F)].live /\ F[Len(F)].live <= e.depth,
         FunctionsCovered(F, e.depth),
         FramesOK(F), EntriesOK(F, A, B), HoldsOK(A, H), RecordsOK(F, A, H)
  PROVE  FramesOK(G) /\ EntriesOK(G, C, B) /\ HoldsOK(C, H) /\ RecordsOK(G, C, H)
<1>0. /\ Len(F) \in Nat /\ Len(G) = Len(F) + 1 /\ G[Len(G)] = x
      /\ Len(F) > 0 => Len(F) \in 1 .. Len(F) /\ G[Len(F)] = F[Len(F)]
      /\ \A i \in 1 .. Len(G) : i = Len(G) \/ (i \in 1 .. Len(F) /\ G[i] = F[i])
  BY DEF Pushed, TypedFrames
<1>a. /\ Len(A) \in Nat /\ Len(C) = Len(A) + 1 /\ C[Len(C)] = e /\ Len(C) \in 1 .. Len(C)
      /\ \A k \in 1 .. Len(C) : k = Len(C) \/ (k \in 1 .. Len(A) /\ k < Len(C) /\ C[k] = A[k])
      /\ \A k \in 1 .. Len(A) : k \in 1 .. Len(C) /\ C[k] = A[k]
  BY DEF Pushed, TypedEntries
<1>h. Len(H) \in Nat /\ \A h \in 1 .. Len(H) : H[h].a \in Nat /\ H[h].a <= Len(A)
  BY DEF TypedHolds, HoldsOK, HoldsOfActivations
<1>l. \A i \in 1 .. Len(F) : F[i].live <= x.live
  BY <1>0 DEF FramesOK, LiveGrows, TypedFrames
<1>1. BottomIsFunction(G)
  BY <1>0 DEF BottomIsFunction, FramesOK
<1>2. SpreadInFunction(G)
  <2>1. SUFFICES ASSUME NEW j \in 1 .. Len(G), G[j].kind = "spread" PROVE j > 1 /\ G[j - 1].kind = "fn"
    BY DEF SpreadInFunction
  <2>2. j \in 1 .. Len(F) /\ G[j] = F[j]
    BY <2>1, <1>0
  <2>3. j > 1 /\ F[j - 1].kind = "fn"
    BY <2>1, <2>2 DEF SpreadInFunction, FramesOK
  <2>4. j - 1 \in 1 .. Len(G) /\ j - 1 # Len(G)
    BY <2>2, <2>3, <1>0
  <2> QED
    BY <2>3, <2>4, <1>0
<1>3. LiveInLimit(G)
  BY <1>0 DEF LiveInLimit, FramesOK
<1>b. CopiesHoldNothing(G)
  BY <1>0 DEF CopiesHoldNothing, FramesOK
<1>4. LiveGrows(G)
  BY <1>0, <1>l DEF LiveGrows, FramesOK
<1>5. HasEntry(G, C, B)
  <2> SUFFICES ASSUME NEW j \in 1 .. Len(G)
               PROVE  IF G[j].kind = "fn"
                      THEN G[j].token \notin B /\ \E k \in 1 .. Len(C) : G[j].token = C[k].token
                      ELSE G[j].token = 0
    BY DEF HasEntry
  <2>1. CASE j = Len(G)
    BY <2>1, <1>0, <1>a
  <2>2. CASE j # Len(G)
    <3>1. j \in 1 .. Len(F) /\ G[j] = F[j]
      BY <2>2, <1>0
    <3> QED
      BY <3>1, <1>a DEF EntriesOK, HasEntry
  <2> QED
    BY <2>1, <2>2
<1>6. EntriesInOrder(G, C)
  <2>1. SUFFICES ASSUME NEW i \in 1 .. Len(G), NEW j \in 1 .. Len(G), NEW k \in 1 .. Len(C),
                        NEW l \in 1 .. Len(C), i < j, G[i].token = C[k].token, G[j].token = C[l].token
                 PROVE  k < l
    BY DEF EntriesInOrder
  <2>2. i \in 1 .. Len(F) /\ G[i] = F[i]
    BY <2>1, <1>0
  <2>3. k \in 1 .. Len(A) /\ C[k] = A[k] /\ k < Len(C)
    BY <2>1, <2>2, <1>a
  <2>4. CASE l # Len(C)
    <3>1. l \in 1 .. Len(A) /\ C[l] = A[l]
      BY <2>4, <1>a
    <3>2. j \in 1 .. Len(F) /\ G[j] = F[j]
      BY <2>1, <3>1, <1>0
    <3> QED
      BY <2>1, <2>2, <2>3, <3>1, <3>2 DEF EntriesInOrder, EntriesOK
  <2> QED
    BY <2>3, <2>4
<1>7. TokensDiffer(C)
  <2>1. SUFFICES ASSUME NEW k \in 1 .. Len(C), NEW l \in 1 .. Len(C), C[k].token = C[l].token
                 PROVE  k = l
    BY DEF TokensDiffer
  <2>2. CASE k \in 1 .. Len(A) /\ l \in 1 .. Len(A)
    <3>1. A[k].token = A[l].token
      BY <2>1, <2>2, <1>a
    <3> QED
      BY <2>2, <3>1 DEF TokensDiffer, EntriesOK
  <2>3. CASE k = Len(C) \/ l = Len(C)
    <3>1. \A i \in 1 .. Len(C) : i # Len(C) => C[i].token # e.token
      BY <1>a
    <3> QED
      BY <2>1, <2>3, <3>1, <1>a
  <2> QED
    BY <2>2, <2>3, <1>a
<1>8. HoldsOfActivations(C, H)
  BY <1>a, <1>h DEF HoldsOfActivations
<1>9. ApplyCovers(G)
  BY <1>0, SMTT(30) DEF ApplyCovers, RecordsOK
<1>10. EntryCoversBelow(G, C)
  <2>1. SUFFICES ASSUME NEW j \in 2 .. Len(G), NEW k \in 1 .. Len(C), G[j].token = C[k].token
                 PROVE  G[j - 1].live <= C[k].depth
    BY DEF EntryCoversBelow
  <2>2. CASE j = Len(G)
    <3>1. C[k].token = e.token /\ k = Len(C) /\ C[k] = e
      BY <2>1, <2>2, <1>0, <1>a
    <3> QED
      BY <2>2, <3>1, <1>0
  <2>3. CASE j # Len(G)
    <3>1. j \in 2 .. Len(F) /\ G[j] = F[j] /\ G[j - 1] = F[j - 1]
      BY <2>1, <2>3, <1>0
    <3>2. k \in 1 .. Len(A) /\ C[k] = A[k]
      BY <2>1, <3>1, <1>a
    <3> QED
      BY <2>1, <3>1, <3>2 DEF EntryCoversBelow, RecordsOK
  <2> QED
    BY <2>2, <2>3
<1>11. EntryCovers(G, C)
  <2> SUFFICES ASSUME NEW j \in 1 .. Len(G), NEW k \in 1 .. Len(C), NEW l \in 1 .. Len(C),
                      G[j].token = C[l].token, l < k
               PROVE  G[j].live <= C[k].depth
    BY DEF EntryCovers
  <2>1. l \in 1 .. Len(A) /\ C[l] = A[l]
    BY <1>a
  <2>2. j \in 1 .. Len(F) /\ G[j] = F[j]
    BY <1>0, <2>1
  <2>3. CASE k = Len(C)
    <3>1. F[j].kind = "fn"
      BY <2>1, <2>2 DEF EntriesOK, HasEntry, TypedEntries
    <3> QED
      BY <3>1, <2>2, <2>3, <1>a DEF FunctionsCovered
  <2>4. CASE k # Len(C)
    BY <2>1, <2>2, <2>4, <1>a DEF EntryCovers, RecordsOK
  <2> QED
    BY <2>3, <2>4
<1>12. HoldCovers(G, C, H)
  <2> SUFFICES ASSUME NEW j \in 1 .. Len(G), NEW l \in 1 .. Len(C), NEW h \in 1 .. Len(H),
                      G[j].token = C[l].token, l <= H[h].a
               PROVE  G[j].live <= H[h].p
    BY DEF HoldCovers
  <2>1. l \in 1 .. Len(A) /\ C[l] = A[l]
    BY <1>a, <1>h
  <2>2. j \in 1 .. Len(F) /\ G[j] = F[j]
    BY <1>0, <2>1
  <2> QED
    BY <2>1, <2>2 DEF HoldCovers, RecordsOK
<1> QED
  BY <1>1, <1>2, <1>3, <1>b, <1>4, <1>5, <1>6, <1>7, <1>8, <1>9, <1>10, <1>11, <1>12, Zenon
     DEF FramesOK, EntriesOK, HoldsOK, RecordsOK

\* The contract enters by hand: an entry without a frame, whose token it keeps.
LEMMA PushHandEntry ==
  ASSUME NEW F, NEW A, NEW C, NEW H, NEW B, NEW e,
         TypedFrames(F), TypedEntries(A), TypedHolds(H), Pushed(A, C, e), e.token # 0,
         \A k \in 1 .. Len(A) : A[k].token # e.token,
         \A j \in 1 .. Len(F) : F[j].token # e.token,
         FunctionsCovered(F, e.depth),
         EntriesOK(F, A, B), HoldsOK(A, H), RecordsOK(F, A, H)
  PROVE  EntriesOK(F, C, B \cup {e.token}) /\ HoldsOK(C, H) /\ RecordsOK(F, C, H)
<1>a. /\ Len(A) \in Nat /\ Len(C) = Len(A) + 1 /\ C[Len(C)] = e /\ Len(C) \in 1 .. Len(C)
      /\ \A k \in 1 .. Len(C) : k = Len(C) \/ (k \in 1 .. Len(A) /\ k < Len(C) /\ C[k] = A[k])
      /\ \A k \in 1 .. Len(A) : k \in 1 .. Len(C) /\ C[k] = A[k]
  BY DEF Pushed, TypedEntries
<1>h. Len(H) \in Nat /\ \A h \in 1 .. Len(H) : H[h].a \in Nat /\ H[h].a <= Len(A)
  BY DEF TypedHolds, HoldsOK, HoldsOfActivations
<1>1. HasEntry(F, C, B \cup {e.token})
  BY <1>a DEF HasEntry, EntriesOK
<1>2. EntriesInOrder(F, C)
  BY <1>a DEF EntriesInOrder, EntriesOK
<1>3. TokensDiffer(C)
  BY <1>a DEF TokensDiffer, EntriesOK
<1>4. HoldsOfActivations(C, H)
  BY <1>a, <1>h DEF HoldsOfActivations
<1>5. EntryCoversBelow(F, C)
  BY <1>a DEF EntryCoversBelow, RecordsOK
<1>6. EntryCovers(F, C)
  <2> SUFFICES ASSUME NEW j \in 1 .. Len(F), NEW k \in 1 .. Len(C), NEW l \in 1 .. Len(C),
                      F[j].token = C[l].token, l < k
               PROVE  F[j].live <= C[k].depth
    BY DEF EntryCovers
  <2>1. l \in 1 .. Len(A) /\ C[l] = A[l]
    BY <1>a
  <2>2. CASE k = Len(C)
    <3>1. F[j].kind = "fn"
      BY <2>1 DEF EntriesOK, HasEntry, TypedEntries
    <3> QED
      BY <3>1, <2>2, <1>a DEF FunctionsCovered
  <2>3. CASE k # Len(C)
    BY <2>1, <2>3, <1>a DEF EntryCovers, RecordsOK
  <2> QED
    BY <2>2, <2>3
<1>7. HoldCovers(F, C, H)
  BY <1>a, <1>h DEF HoldCovers, RecordsOK
<1> QED
  BY <1>1, <1>2, <1>3, <1>4, <1>5, <1>6, <1>7, Zenon DEF EntriesOK, HoldsOK, RecordsOK

Lowered(F, G, n) ==
    /\ n \in 1 .. Len(F) /\ Len(G) = Len(F)
    /\ \A j \in 1 .. Len(F) :
         /\ G[j].kind = F[j].kind /\ G[j].token = F[j].token /\ G[j].p = F[j].p /\ G[j].units = F[j].units
         /\ G[j].live = IF j <= n THEN F[j].live ELSE F[n].live

\* Of the frames above one of them nothing is counted any more: each record covers
\* what it did.
LEMMA Lower ==
  ASSUME NEW F, NEW G, NEW A, NEW H, NEW B, NEW n, TypedFrames(F), Lowered(F, G, n),
         FramesOK(F), EntriesOK(F, A, B), RecordsOK(F, A, H), TypedEntries(A), TypedHolds(H)
  PROVE  FramesOK(G) /\ EntriesOK(G, A, B) /\ RecordsOK(G, A, H)
<1>0. /\ Len(F) \in Nat /\ Len(G) = Len(F) /\ n \in 1 .. Len(F) /\ F[n].live \in Nat
      /\ \A j \in 1 .. Len(F) : F[j].live \in Nat /\ F[j].units \in Nat /\ F[j].p \in Nat
      /\ \A j \in 1 .. Len(F) :
           G[j].kind = F[j].kind /\ G[j].token = F[j].token /\ G[j].p = F[j].p /\ G[j].units = F[j].units
      /\ \A j \in 1 .. Len(F) : G[j].live = IF j <= n THEN F[j].live ELSE F[n].live
  BY DEF Lowered, TypedFrames
<1>g. \A i, j \in 1 .. Len(F) : i < j => F[i].live <= F[j].live
  BY DEF FramesOK, LiveGrows
<1>l. \A j \in 1 .. Len(F) : G[j].live \in Nat /\ G[j].live <= F[j].live
  BY <1>0, <1>g
<1>1. BottomIsFunction(G)
  BY <1>0 DEF BottomIsFunction, FramesOK
<1>2. SpreadInFunction(G)
  <2>1. SUFFICES ASSUME NEW j \in 1 .. Len(F), F[j].kind = "spread" PROVE j > 1 /\ G[j - 1].kind = "fn"
    BY <1>0 DEF SpreadInFunction
  <2>2. j > 1 /\ F[j - 1].kind = "fn"
    BY <2>1 DEF SpreadInFunction, FramesOK
  <2>3. j - 1 \in 1 .. Len(F)
    BY <2>2, <1>0
  <2> QED
    BY <2>2, <2>3, <1>0
<1>3. LiveInLimit(G)
  <2>1. SUFFICES ASSUME NEW j \in 1 .. Len(F) PROVE G[j].live + G[j].units <= NR_LIMIT
    BY <1>0 DEF LiveInLimit
  <2>2. F[j].live + F[j].units <= NR_LIMIT
    BY DEF FramesOK, LiveInLimit
  <2> QED
    BY <2>2, <1>0, <1>l, LimitAssumption
<1>b. CopiesHoldNothing(G)
  <2>1. SUFFICES ASSUME NEW j \in 2 .. Len(G), G[j].kind = "copies" PROVE G[j].live = G[j - 1].live
    BY DEF CopiesHoldNothing
  <2>2. F[j].live = F[j - 1].live
    <3>1. j \in 2 .. Len(F) /\ j \in 1 .. Len(F)
      BY <1>0
    <3>2. F[j].kind = "copies"
      BY <2>1, <3>1, <1>0
    <3> QED
      BY <3>1, <3>2 DEF FramesOK, CopiesHoldNothing
  <2>3. j \in 1 .. Len(F) /\ j - 1 \in 1 .. Len(F) /\ (j <= n => j - 1 <= n) /\ (~(j <= n) => j - 1 = n \/ ~(j - 1 <= n))
    BY <1>0
  <2> QED
    BY <2>2, <2>3, <1>0
<1>4. LiveGrows(G)
  <2>1. SUFFICES ASSUME NEW i \in 1 .. Len(F), NEW j \in 1 .. Len(F), i < j PROVE G[i].live <= G[j].live
    BY <1>0 DEF LiveGrows
  <2>2. CASE j <= n
    BY <2>1, <2>2, <1>0, <1>g
  <2>3. CASE ~(j <= n)
    <3>1. G[j].live = F[n].live
      BY <2>3, <1>0
    <3>2. G[i].live <= F[n].live
      BY <2>1, <1>0, <1>g
    <3> QED
      BY <3>1, <3>2
  <2> QED
    BY <2>2, <2>3
<1>5. HasEntry(G, A, B)
  BY <1>0 DEF HasEntry, EntriesOK
<1>6. EntriesInOrder(G, A)
  BY <1>0 DEF EntriesInOrder, EntriesOK
<1>7. ApplyCovers(G)
  <2>1. SUFFICES ASSUME NEW j \in 2 .. Len(F), F[j].kind = "apply" PROVE G[j - 1].live <= F[j].p
    BY <1>0 DEF ApplyCovers
  <2>2. F[j - 1].live <= F[j].p /\ j \in 1 .. Len(F) /\ j - 1 \in 1 .. Len(F)
    BY <2>1, <1>0 DEF ApplyCovers, RecordsOK
  <2> QED
    BY <2>2, <1>0, <1>l
<1>8. EntryCoversBelow(G, A)
  <2>1. SUFFICES ASSUME NEW j \in 2 .. Len(F), NEW k \in 1 .. Len(A), F[j].token = A[k].token
                 PROVE  G[j - 1].live <= A[k].depth
    BY <1>0 DEF EntryCoversBelow
  <2>2. F[j - 1].live <= A[k].depth /\ j - 1 \in 1 .. Len(F) /\ A[k].depth \in Nat
    BY <2>1, <1>0 DEF EntryCoversBelow, RecordsOK, TypedEntries
  <2> QED
    BY <2>2, <1>0, <1>l
<1>9. EntryCovers(G, A)
  <2>1. SUFFICES ASSUME NEW j \in 1 .. Len(F), NEW k \in 1 .. Len(A), NEW l \in 1 .. Len(A),
                        F[j].token = A[l].token, l < k
                 PROVE  G[j].live <= A[k].depth
    BY <1>0 DEF EntryCovers
  <2>2. F[j].live <= A[k].depth /\ A[k].depth \in Nat
    BY <2>1 DEF EntryCovers, RecordsOK, TypedEntries
  <2> QED
    BY <2>2, <1>0, <1>l
<1>10. HoldCovers(G, A, H)
  <2>1. SUFFICES ASSUME NEW j \in 1 .. Len(F), NEW l \in 1 .. Len(A), NEW h \in 1 .. Len(H),
                        F[j].token = A[l].token, l <= H[h].a
                 PROVE  G[j].live <= H[h].p
    BY <1>0 DEF HoldCovers
  <2>2. F[j].live <= H[h].p /\ H[h].p \in Nat
    BY <2>1 DEF HoldCovers, RecordsOK, TypedHolds
  <2> QED
    BY <2>2, <1>0, <1>l
<1> QED
  BY <1>1, <1>2, <1>3, <1>b, <1>4, <1>5, <1>6, <1>7, <1>8, <1>9, <1>10, Zenon
     DEF FramesOK, EntriesOK, RecordsOK

-------------------------------------------------------------------------------
(***************************************************************************)
(* What keeps the budget exact while the contract keeps its hands off.     *)
(***************************************************************************)
\* Stacks that agree up to m have the same frames without leaks and the same live
\* units up to there.
LEMMA Agree ==
  ASSUME NEW F, NEW G, NEW m \in Nat, \A i \in 1 .. m : G[i] = F[i]
  PROVE  \A n \in 0 .. m : (Clear(G, n) <=> Clear(F, n)) /\ LiveAt(G, n) = LiveAt(F, n)
  BY DEF Clear, LiveAt

\* An entry is that of one frame only.
LEMMA OneFrame ==
  ASSUME NEW F, NEW A, NEW B, TypedFrames(F), TypedEntries(A), EntriesOK(F, A, B)
  PROVE  \A i, j \in 1 .. Len(F), k \in 1 .. Len(A) :
            F[i].token = A[k].token /\ F[j].token = A[k].token => i = j
<1>1. SUFFICES ASSUME NEW i \in 1 .. Len(F), NEW j \in 1 .. Len(F), NEW k \in 1 .. Len(A),
                      F[i].token = A[k].token, F[j].token = A[k].token, i # j
               PROVE  FALSE
  OBVIOUS
<1>2. ~(i < j) /\ ~(j < i)
  BY <1>1 DEF EntriesOK, EntriesInOrder, TypedEntries
<1> QED
  BY <1>1, <1>2 DEF TypedFrames

\* When every entry is that of a frame, the innermost function on the stack has
\* the innermost entry.
LEMMA InnermostEntry ==
  ASSUME NEW F, NEW A, NEW B, NEW n \in 1 .. Len(F), TypedFrames(F), TypedEntries(A),
         EntriesOK(F, A, B), EntryHasFrame(F, A),
         F[n].kind = "fn", \A j \in 1 .. Len(F) : j > n => F[j].kind # "fn"
  PROVE  /\ Len(A) > 0 /\ F[n].token = A[Len(A)].token
         /\ \A j \in 1 .. Len(F) : F[j].token = A[Len(A)].token => j = n
         /\ \A k \in 1 .. Len(A) : F[n].token = A[k].token => k = Len(A)
<1>1. PICK k \in 1 .. Len(A) : F[n].token = A[k].token
  BY DEF EntriesOK, HasEntry
<1>2. Len(A) \in Nat /\ Len(A) > 0 /\ Len(A) \in 1 .. Len(A)
  BY <1>1 DEF TypedEntries
<1>3. PICK j \in 1 .. Len(F) : F[j].token = A[Len(A)].token
  BY <1>2 DEF EntryHasFrame
<1>4. F[j].kind = "fn"
  BY <1>2, <1>3 DEF EntriesOK, HasEntry, TypedEntries
<1>5. ~(j > n)
  BY <1>4
<1>6. CASE j < n
  BY <1>1, <1>2, <1>3, <1>6 DEF EntriesOK, EntriesInOrder, TypedEntries
<1>7. CASE j = n
  <2>1. \A i \in 1 .. Len(F) : F[i].token = A[Len(A)].token => i = n
    BY <1>2, <1>3, <1>7, OneFrame
  <2>2. \A l \in 1 .. Len(A) : F[n].token = A[l].token => l = Len(A)
    BY <1>2, <1>3, <1>7 DEF EntriesOK, TokensDiffer
  <2> QED
    BY <2>1, <2>2, <1>2, <1>3, <1>7
<1> QED
  BY <1>5, <1>6, <1>7 DEF TypedFrames

\* A function is entered.
LEMMA EnterExact ==
  ASSUME NEW F, NEW G, NEW A, NEW C, NEW H, NEW D \in Nat, NEW w \in Nat, NEW x, NEW e,
         TypedFrames(F), TypedEntries(A), TypedHolds(H), Pushed(F, G, x), Pushed(A, C, e),
         x.kind = "fn", ~x.leaked, x.token = e.token, e.depth = D,
         x.live = LiveAt(F, Len(F)) + w, LiveAt(F, Len(F)) \in Nat,
         \A k \in 1 .. Len(A) : A[k].token # e.token,
         \A j \in 1 .. Len(F) : F[j].token # e.token,
         HoldsOK(A, H), Exact(F, A, H, D)
  PROVE  Exact(G, C, H, D + w)
<1>0. /\ Len(F) \in Nat /\ Len(G) = Len(F) + 1 /\ G[Len(G)] = x /\ Len(G) \in 1 .. Len(G)
      /\ \A i \in 1 .. Len(G) : i = Len(G) \/ (i \in 1 .. Len(F) /\ G[i] = F[i])
      /\ \A i \in 1 .. Len(F) : i \in 1 .. Len(G) /\ G[i] = F[i]
  BY DEF Pushed, TypedFrames
<1>a. /\ Len(A) \in Nat /\ Len(C) = Len(A) + 1 /\ C[Len(C)] = e
      /\ \A k \in 1 .. Len(C) : k = Len(C) \/ (k \in 1 .. Len(A) /\ C[k] = A[k])
      /\ \A k \in 1 .. Len(A) : C[k] = A[k]
  BY DEF Pushed, TypedEntries
<1>h. \A h \in 1 .. Len(H) : H[h].a \in Nat /\ H[h].a <= Len(A)
  BY DEF TypedHolds, HoldsOK, HoldsOfActivations
<1>c. \A n \in 0 .. Len(F) : (Clear(G, n) <=> Clear(F, n)) /\ LiveAt(G, n) = LiveAt(F, n)
  <2>1. Len(F) \in Nat /\ \A i \in 1 .. Len(F) : G[i] = F[i]
    BY <1>0
  <2> QED
    BY <2>1, Agree, ZenonT(60)
<1>d. Clear(F, Len(F)) => D = LiveAt(F, Len(F))
  BY DEF Exact, DepthExact
<1>2. EntryHasFrame(G, C)
  <2>1. SUFFICES ASSUME NEW k \in 1 .. Len(C) PROVE \E j \in 1 .. Len(G) : G[j].token = C[k].token
    BY DEF EntryHasFrame
  <2>2. CASE k = Len(C)
    BY <2>2, <1>0, <1>a
  <2>3. CASE k # Len(C)
    <3>1. k \in 1 .. Len(A) /\ C[k] = A[k]
      BY <2>3, <1>a
    <3>2. PICK j \in 1 .. Len(F) : F[j].token = A[k].token
      BY <3>1 DEF Exact, EntryHasFrame
    <3> QED
      BY <3>1, <3>2, <1>0
  <2> QED
    BY <2>2, <2>3
<1>3. ApplyExact(G)
  <2>1. SUFFICES ASSUME NEW j \in 1 .. Len(G), Clear(G, j - 1), G[j].kind = "apply"
                 PROVE  G[j].p = LiveAt(G, j - 1)
    BY DEF ApplyExact
  <2>2. j \in 1 .. Len(F) /\ G[j] = F[j] /\ j - 1 \in 0 .. Len(F)
    BY <2>1, <1>0
  <2> QED
    BY <2>1, <2>2, <1>c DEF ApplyExact, Exact
<1>4. EntryExact(G, C)
  <2>1. SUFFICES ASSUME NEW j \in 1 .. Len(G), NEW k \in 1 .. Len(C), Clear(G, j - 1),
                        G[j].token = C[k].token
                 PROVE  C[k].depth = LiveAt(G, j - 1)
    BY DEF EntryExact
  <2>2. j - 1 \in 0 .. Len(F)
    BY <1>0
  <2>3. CASE j = Len(G)
    <3>1. C[k] = e /\ j - 1 = Len(F)
      BY <2>1, <2>3, <1>0, <1>a
    <3> QED
      BY <2>1, <2>2, <3>1, <1>c, <1>d
  <2>4. CASE j # Len(G)
    <3>1. j \in 1 .. Len(F) /\ G[j] = F[j]
      BY <2>4, <1>0
    <3>2. k \in 1 .. Len(A) /\ C[k] = A[k]
      BY <2>1, <3>1, <1>a
    <3> QED
      BY <2>1, <2>2, <3>1, <3>2, <1>c DEF EntryExact, Exact
  <2> QED
    BY <2>3, <2>4
<1>5. \A h \in 1 .. Len(H), j \in 1 .. Len(G) :
         H[h].a > 0 /\ G[j].token = C[H[h].a].token =>
           j \in 1 .. Len(F) /\ G[j] = F[j] /\ C[H[h].a] = A[H[h].a]
  BY <1>0, <1>a, <1>h, SMTT(30)
<1>6. HoldIsOfSpread(G, C, H)
  <2>1. SUFFICES ASSUME NEW h \in 1 .. Len(H), NEW j \in 1 .. Len(G), H[h].a > 0,
                        G[j].token = C[H[h].a].token, ~G[j].leaked
                 PROVE  /\ j < Len(G) /\ G[j + 1].kind = "spread" /\ G[j + 1].id = H[h].i
                        /\ Clear(G, j) => H[h].p = G[j].live
    BY DEF HoldIsOfSpread
  <2>2. j \in 1 .. Len(F) /\ j \in 0 .. Len(F) /\ G[j] = F[j] /\ C[H[h].a] = A[H[h].a]
    <3>1. j \in 1 .. Len(F) /\ G[j] = F[j] /\ C[H[h].a] = A[H[h].a]
      BY <2>1, <1>5
    <3> QED
      BY <3>1, <1>0
  <2>3. /\ j < Len(F) /\ F[j + 1].kind = "spread" /\ F[j + 1].id = H[h].i
        /\ Clear(F, j) => H[h].p = F[j].live
    BY <2>1, <2>2 DEF Exact, HoldIsOfSpread
  <2>4. j + 1 \in 1 .. Len(F) /\ j < Len(G)
    BY <2>2, <2>3, <1>0
  <2>5. G[j + 1] = F[j + 1] /\ (Clear(G, j) <=> Clear(F, j))
    BY <2>2, <2>4, <1>0, <1>c, Zenon
  <2> QED
    BY <2>2, <2>3, <2>4, <2>5
<1>7. HoldIsSingle(G, C, H)
  BY <1>5 DEF HoldIsSingle, Exact
<1>8. SpreadHasHold(G, C, H)
  <2>1. SUFFICES ASSUME NEW j \in 2 .. Len(G), G[j].kind = "spread", ~G[j - 1].leaked
                 PROVE  \E h \in 1 .. Len(H) : H[h].a > 0 /\ G[j - 1].token = C[H[h].a].token
    BY DEF SpreadHasHold
  <2>2. j # Len(G)
    BY <2>1, <1>0
  <2>3. j \in 2 .. Len(F) /\ G[j] = F[j] /\ G[j - 1] = F[j - 1]
    BY <2>2, <1>0
  <2>4. PICK h \in 1 .. Len(H) : H[h].a > 0 /\ F[j - 1].token = A[H[h].a].token
    BY <2>1, <2>3 DEF SpreadHasHold, Exact
  <2>5. C[H[h].a] = A[H[h].a]
    BY <2>4, <1>a, <1>h, SMTT(30)
  <2> QED
    BY <2>3, <2>4, <2>5
<1>9. DepthExact(G, D + w)
  <2>1. SUFFICES ASSUME Clear(G, Len(G)) PROVE D + w = x.live
    BY <1>0 DEF DepthExact, LiveAt
  <2>2. Clear(F, Len(F))
    BY <2>1, <1>0 DEF Clear
  <2> QED
    BY <2>2, <1>d
<1> QED
  BY <1>2, <1>3, <1>4, <1>6, <1>7, <1>8, <1>9, Zenon DEF Exact

\* A frame goes, and where a spread call threw, the function that made it is
\* marked.
Shrunk(F, G) ==
    /\ Len(F) > 0 /\ Len(G) = Len(F) - 1
    /\ \A j \in 1 .. Len(G) :
         /\ G[j].kind = F[j].kind /\ G[j].live = F[j].live /\ G[j].token = F[j].token
         /\ G[j].p = F[j].p /\ G[j].id = F[j].id
         /\ F[j].leaked => G[j].leaked

\* A frame goes with its entry and holds, if it has any: what is below stays
\* exact when the depth is what the frame below has.
LEMMA LeaveExact ==
  ASSUME NEW F, NEW G, NEW A, NEW C, NEW H, NEW K, NEW B, NEW D, NEW E,
         TypedFrames(F), Len(G) \in Nat, TypedEntries(A), Len(C) \in Nat, TypedHolds(H), Len(K) \in Nat,
         Shrunk(F, G), Cut(A, C), Cut(H, K), EntriesOK(F, A, B), Exact(F, A, H, D),
         \A k \in 1 .. Len(C) : F[Len(F)].token # C[k].token,
         \A h \in 1 .. Len(K) : K[h].a <= Len(C),
         \A h \in 1 .. Len(H), j \in 1 .. Len(G) :
            h > Len(K) /\ H[h].a > 0 /\ F[j].token = A[H[h].a].token => j = Len(G),
         \A h \in 1 .. Len(K), j \in 1 .. Len(G) :
            K[h].a > 0 /\ F[j].token = A[K[h].a].token /\ ~G[j].leaked => j < Len(G),
         Clear(G, Len(G)) => E = LiveAt(G, Len(G))
  PROVE  Exact(G, C, K, E)
<1>0. /\ Len(F) \in Nat /\ Len(F) > 0 /\ Len(G) = Len(F) - 1
      /\ \A j \in 1 .. Len(G) : j \in 1 .. Len(F) /\ j - 1 \in 0 .. Len(G)
      /\ \A j \in 1 .. Len(F) : j = Len(F) \/ j \in 1 .. Len(G)
  BY DEF Shrunk, TypedFrames
<1>s. \A j \in 1 .. Len(G) :
         /\ G[j].kind = F[j].kind /\ G[j].live = F[j].live /\ G[j].token = F[j].token
         /\ G[j].p = F[j].p /\ G[j].id = F[j].id
         /\ F[j].leaked => G[j].leaked
  BY DEF Shrunk
<1>a. Len(C) <= Len(A) /\ \A k \in 1 .. Len(C) : k \in 1 .. Len(A) /\ C[k] = A[k]
  BY DEF Cut, TypedEntries
<1>h. \A h \in 1 .. Len(K) : h \in 1 .. Len(H) /\ K[h] = H[h] /\ K[h].a \in Nat
  BY DEF Cut, TypedHolds
<1>c. \A n \in 0 .. Len(G) : (Clear(G, n) => Clear(F, n)) /\ LiveAt(G, n) = LiveAt(F, n)
  BY <1>s, SMTT(30) DEF Clear, LiveAt
<1>2. EntryHasFrame(G, C)
  <2>1. SUFFICES ASSUME NEW k \in 1 .. Len(C) PROVE \E j \in 1 .. Len(G) : G[j].token = C[k].token
    BY DEF EntryHasFrame
  <2>2. PICK j \in 1 .. Len(F) : F[j].token = A[k].token
    BY <1>a DEF Exact, EntryHasFrame
  <2>3. j \in 1 .. Len(G)
    BY <2>2, <1>0, <1>a
  <2> QED
    BY <2>2, <2>3, <1>s, <1>a
<1>3. ApplyExact(G)
  <2>1. SUFFICES ASSUME NEW j \in 1 .. Len(G), Clear(G, j - 1), G[j].kind = "apply"
                 PROVE  G[j].p = LiveAt(G, j - 1)
    BY DEF ApplyExact
  <2>2. j \in 1 .. Len(F) /\ Clear(F, j - 1) /\ LiveAt(G, j - 1) = LiveAt(F, j - 1)
    BY <2>1, <1>0, <1>c
  <2>3. F[j].kind = "apply" /\ F[j].p = G[j].p
    BY <2>1, <1>s
  <2> QED
    BY <2>2, <2>3 DEF ApplyExact, Exact
<1>4. EntryExact(G, C)
  <2>1. SUFFICES ASSUME NEW j \in 1 .. Len(G), NEW k \in 1 .. Len(C), Clear(G, j - 1),
                        G[j].token = C[k].token
                 PROVE  C[k].depth = LiveAt(G, j - 1)
    BY DEF EntryExact
  <2>2. j \in 1 .. Len(F) /\ Clear(F, j - 1) /\ LiveAt(G, j - 1) = LiveAt(F, j - 1)
    BY <2>1, <1>0, <1>c
  <2>3. F[j].token = A[k].token /\ C[k] = A[k] /\ k \in 1 .. Len(A)
    BY <2>1, <1>s, <1>a
  <2> QED
    BY <2>2, <2>3 DEF EntryExact, Exact
<1>5. HoldIsOfSpread(G, C, K)
  <2>1. SUFFICES ASSUME NEW h \in 1 .. Len(K), NEW j \in 1 .. Len(G), K[h].a > 0,
                        G[j].token = C[K[h].a].token, ~G[j].leaked
                 PROVE  /\ j < Len(G) /\ G[j + 1].kind = "spread" /\ G[j + 1].id = K[h].i
                        /\ Clear(G, j) => K[h].p = G[j].live
    BY DEF HoldIsOfSpread
  <2>2. h \in 1 .. Len(H) /\ K[h] = H[h] /\ K[h].a \in 1 .. Len(C) /\ C[K[h].a] = A[K[h].a]
    BY <2>1, <1>h, <1>a, SMTT(30)
  <2>3. j \in 1 .. Len(F) /\ F[j].token = A[H[h].a].token /\ ~F[j].leaked /\ F[j].live = G[j].live
    BY <2>1, <2>2, <1>0, <1>s
  <2>4. j < Len(G)
    BY <2>1, <2>2, <2>3
  <2>5. /\ F[j + 1].kind = "spread" /\ F[j + 1].id = H[h].i
        /\ Clear(F, j) => H[h].p = F[j].live
    BY <2>1, <2>2, <2>3 DEF Exact, HoldIsOfSpread
  <2>6. j + 1 \in 1 .. Len(G) /\ j \in 0 .. Len(G)
    BY <2>4, <1>0
  <2>7. G[j + 1].kind = F[j + 1].kind /\ G[j + 1].id = F[j + 1].id
    BY <2>6, <1>s
  <2>8. Clear(G, j) => Clear(F, j)
    BY <2>6, <1>c
  <2> QED
    BY <2>2, <2>3, <2>4, <2>5, <2>7, <2>8
<1>6. HoldIsSingle(G, C, K)
  <2>1. SUFFICES ASSUME NEW g \in 1 .. Len(K), NEW h \in 1 .. Len(K), NEW j \in 1 .. Len(G), K[h].a > 0,
                        G[j].token = C[K[h].a].token, ~G[j].leaked, K[g].a = K[h].a
                 PROVE  g = h
    BY DEF HoldIsSingle
  <2>2. /\ h \in 1 .. Len(H) /\ K[h] = H[h] /\ K[h].a \in 1 .. Len(C) /\ C[K[h].a] = A[K[h].a]
        /\ g \in 1 .. Len(H) /\ K[g] = H[g]
    BY <2>1, <1>h, <1>a
  <2>3. j \in 1 .. Len(F) /\ F[j].token = A[H[h].a].token /\ ~F[j].leaked
    BY <2>1, <2>2, <1>0, <1>s
  <2> QED
    BY <2>1, <2>2, <2>3 DEF HoldIsSingle, Exact
<1>7. SpreadHasHold(G, C, K)
  <2>1. SUFFICES ASSUME NEW j \in 2 .. Len(G), G[j].kind = "spread", ~G[j - 1].leaked
                 PROVE  \E h \in 1 .. Len(K) : K[h].a > 0 /\ G[j - 1].token = C[K[h].a].token
    BY DEF SpreadHasHold
  <2>2. j \in 2 .. Len(F) /\ j \in 1 .. Len(G) /\ j - 1 \in 1 .. Len(G) /\ j - 1 # Len(G)
    BY <1>0
  <2>3. F[j].kind = "spread" /\ ~F[j - 1].leaked /\ G[j - 1].token = F[j - 1].token
    BY <2>1, <2>2, <1>s
  <2>4. PICK h \in 1 .. Len(H) : H[h].a > 0 /\ F[j - 1].token = A[H[h].a].token
    BY <2>2, <2>3 DEF SpreadHasHold, Exact
  <2>5. ~(h > Len(K))
    BY <2>2, <2>4
  <2>6. h \in 1 .. Len(K)
    BY <2>5 DEF TypedHolds
  <2>7. K[h] = H[h] /\ K[h].a \in 1 .. Len(C) /\ C[K[h].a] = A[K[h].a]
    BY <2>4, <2>6, <1>h, <1>a, SMTT(30)
  <2> QED
    BY <2>3, <2>4, <2>6, <2>7
<1>8. DepthExact(G, E)
  BY DEF DepthExact
<1> QED
  BY <1>2, <1>3, <1>4, <1>5, <1>6, <1>7, <1>8, Zenon DEF Exact

NativePush(F, G, D, E, u, x) ==
    /\ Pushed(F, G, x) /\ x.kind # "fn" /\ ~x.leaked /\ x.token = 0
    /\ x.kind = "apply" => x.p = D
    /\ x.live = LiveAt(F, Len(F)) + u
    /\ Clear(F, Len(F)) => E = D + u

\* A native frame is pushed: everything but the holds stays exact.
LEMMA NativeExact ==
  ASSUME NEW F, NEW G, NEW A, NEW H, NEW D \in Nat, NEW E, NEW u \in Nat, NEW x,
         TypedFrames(F), TypedEntries(A), NativePush(F, G, D, E, u, x), Exact(F, A, H, D)
  PROVE  /\ EntryHasFrame(G, A) /\ ApplyExact(G) /\ EntryExact(G, A) /\ DepthExact(G, E)
         /\ \A n \in 0 .. Len(F) : (Clear(G, n) <=> Clear(F, n)) /\ LiveAt(G, n) = LiveAt(F, n)
<1>0. /\ Len(F) \in Nat /\ Len(G) = Len(F) + 1 /\ G[Len(G)] = x /\ Len(G) \in 1 .. Len(G)
      /\ \A i \in 1 .. Len(G) : i = Len(G) \/ (i \in 1 .. Len(F) /\ G[i] = F[i])
      /\ \A i \in 1 .. Len(F) : i \in 1 .. Len(G) /\ G[i] = F[i]
  BY DEF NativePush, Pushed, TypedFrames
<1>t. \A k \in 1 .. Len(A) : x.token # A[k].token
  BY DEF NativePush, TypedEntries
<1>c. \A n \in 0 .. Len(F) : (Clear(G, n) <=> Clear(F, n)) /\ LiveAt(G, n) = LiveAt(F, n)
  <2>1. Len(F) \in Nat /\ \A i \in 1 .. Len(F) : G[i] = F[i]
    BY <1>0
  <2> QED
    BY <2>1, Agree, Zenon
<1>d. Clear(F, Len(F)) => D = LiveAt(F, Len(F))
  BY DEF Exact, DepthExact
<1>x. /\ ~x.leaked /\ (x.kind = "apply" => x.p = D) /\ x.live = LiveAt(F, Len(F)) + u
      /\ Clear(F, Len(F)) => E = D + u
  BY DEF NativePush
<1>2. EntryHasFrame(G, A)
  <2>1. SUFFICES ASSUME NEW k \in 1 .. Len(A) PROVE \E j \in 1 .. Len(G) : G[j].token = A[k].token
    BY DEF EntryHasFrame
  <2>2. PICK j \in 1 .. Len(F) : F[j].token = A[k].token
    BY DEF Exact, EntryHasFrame
  <2> QED
    BY <2>2, <1>0
<1>3. ApplyExact(G)
  <2>1. SUFFICES ASSUME NEW j \in 1 .. Len(G), Clear(G, j - 1), G[j].kind = "apply"
                 PROVE  G[j].p = LiveAt(G, j - 1)
    BY DEF ApplyExact
  <2>2. j - 1 \in 0 .. Len(F)
    BY <1>0
  <2>3. Clear(F, j - 1) /\ LiveAt(G, j - 1) = LiveAt(F, j - 1)
    BY <2>1, <2>2, <1>c
  <2>4. CASE j = Len(G)
    <3>1. j - 1 = Len(F) /\ G[j] = x
      BY <2>4, <1>0
    <3> QED
      BY <2>1, <2>3, <3>1, <1>d, <1>x
  <2>5. CASE j # Len(G)
    <3>1. j \in 1 .. Len(F) /\ G[j] = F[j]
      BY <2>5, <1>0
    <3> QED
      BY <2>1, <2>3, <3>1 DEF ApplyExact, Exact
  <2> QED
    BY <2>4, <2>5
<1>4. EntryExact(G, A)
  <2>1. SUFFICES ASSUME NEW j \in 1 .. Len(G), NEW k \in 1 .. Len(A), Clear(G, j - 1),
                        G[j].token = A[k].token
                 PROVE  A[k].depth = LiveAt(G, j - 1)
    BY DEF EntryExact
  <2>2. j \in 1 .. Len(F) /\ G[j] = F[j]
    BY <2>1, <1>0, <1>t
  <2>3. j - 1 \in 0 .. Len(F)
    BY <1>0
  <2>4. Clear(F, j - 1) /\ LiveAt(G, j - 1) = LiveAt(F, j - 1)
    BY <2>1, <2>3, <1>c
  <2> QED
    BY <2>1, <2>2, <2>4 DEF EntryExact, Exact
<1>5. DepthExact(G, E)
  <2>1. SUFFICES ASSUME Clear(G, Len(G)) PROVE E = x.live
    BY <1>0 DEF DepthExact, LiveAt
  <2>2. Clear(F, Len(F))
    BY <2>1, <1>0 DEF Clear
  <2> QED
    BY <2>2, <1>d, <1>x
<1> QED
  BY <1>2, <1>3, <1>4, <1>5, <1>c, Zenon

\* An apply is made, or begins to copy.
LEMMA ApplyPushExact ==
  ASSUME NEW F, NEW G, NEW A, NEW H, NEW B, NEW D \in Nat, NEW u \in Nat, NEW x,
         TypedFrames(F), TypedEntries(A), TypedHolds(H), Pushed(F, G, x),
         x.kind \in {"apply", "copies"}, ~x.leaked, x.token = 0, x.p = D,
         x.live = LiveAt(F, Len(F)) + u, HoldsOK(A, H), Exact(F, A, H, D)
  PROVE  Exact(G, A, H, D + u)
<1>0. /\ Len(F) \in Nat /\ Len(G) = Len(F) + 1 /\ G[Len(G)] = x
      /\ \A i \in 1 .. Len(G) : i = Len(G) \/ (i \in 1 .. Len(F) /\ G[i] = F[i])
      /\ \A i \in 1 .. Len(F) : G[i] = F[i]
  BY DEF Pushed, TypedFrames
<1>n. /\ EntryHasFrame(G, A) /\ ApplyExact(G) /\ EntryExact(G, A) /\ DepthExact(G, D + u)
      /\ \A n \in 0 .. Len(F) : (Clear(G, n) <=> Clear(F, n)) /\ LiveAt(G, n) = LiveAt(F, n)
  <2>1. NativePush(F, G, D, D + u, u, x)
    BY DEF NativePush
  <2> QED
    BY <2>1, NativeExact, Zenon
<1>t. \A h \in 1 .. Len(H), j \in 1 .. Len(G) :
         H[h].a > 0 /\ G[j].token = A[H[h].a].token => j \in 1 .. Len(F) /\ G[j] = F[j]
  <2>1. \A h \in 1 .. Len(H) : H[h].a > 0 => H[h].a \in 1 .. Len(A)
    BY DEF TypedEntries, TypedHolds, HoldsOK, HoldsOfActivations
  <2>2. \A h \in 1 .. Len(H) : H[h].a > 0 => A[H[h].a].token # 0
    BY <2>1 DEF TypedEntries
  <2> QED
    BY <2>2, <1>0
<1>1. HoldIsOfSpread(G, A, H)
  <2>1. SUFFICES ASSUME NEW h \in 1 .. Len(H), NEW j \in 1 .. Len(G), H[h].a > 0,
                        G[j].token = A[H[h].a].token, ~G[j].leaked
                 PROVE  /\ j < Len(G) /\ G[j + 1].kind = "spread" /\ G[j + 1].id = H[h].i
                        /\ Clear(G, j) => H[h].p = G[j].live
    BY DEF HoldIsOfSpread
  <2>2. j \in 1 .. Len(F) /\ j \in 0 .. Len(F) /\ G[j] = F[j]
    BY <2>1, <1>t
  <2>3. /\ j < Len(F) /\ F[j + 1].kind = "spread" /\ F[j + 1].id = H[h].i
        /\ Clear(F, j) => H[h].p = F[j].live
    BY <2>1, <2>2 DEF Exact, HoldIsOfSpread
  <2>4. j + 1 \in 1 .. Len(F) /\ j < Len(G)
    BY <2>2, <2>3, <1>0
  <2>5. G[j + 1] = F[j + 1] /\ (Clear(G, j) <=> Clear(F, j))
    BY <2>2, <2>4, <1>0, <1>n, Zenon
  <2> QED
    BY <2>2, <2>3, <2>4, <2>5
<1>2. HoldIsSingle(G, A, H)
  BY <1>t DEF HoldIsSingle, Exact
<1>3. SpreadHasHold(G, A, H)
  <2>1. SUFFICES ASSUME NEW j \in 2 .. Len(G), G[j].kind = "spread", ~G[j - 1].leaked
                 PROVE  \E h \in 1 .. Len(H) : H[h].a > 0 /\ G[j - 1].token = A[H[h].a].token
    BY DEF SpreadHasHold
  <2>2. j # Len(G)
    BY <2>1, <1>0
  <2>3. j \in 2 .. Len(F) /\ G[j] = F[j] /\ G[j - 1] = F[j - 1]
    BY <2>2, <1>0
  <2> QED
    BY <2>1, <2>3 DEF SpreadHasHold, Exact
<1> QED
  BY <1>n, <1>1, <1>2, <1>3, Zenon DEF Exact

\* A spread call is made: its hold is that of the function on top, which has no
\* other one unless it leaked it.
LEMMA SpreadPushExact ==
  ASSUME NEW F, NEW G, NEW A, NEW H, NEW K, NEW M, NEW B, NEW D \in Nat, NEW E, NEW u \in Nat, NEW x, NEW y,
         TypedFrames(F), TypedEntries(A), TypedHolds(H), Len(K) \in Nat, Len(F) > 0,
         F[Len(F)].kind = "fn", Pushed(F, G, x), Cut(H, K), Pushed(K, M, y),
         x.kind = "spread", ~x.leaked, x.token = 0, x.id = y.i,
         x.live = LiveAt(F, Len(F)) + u, y.a = Len(A),
         \A h \in 1 .. Len(H) : h > Len(K) => H[h].a = Len(A),
         Len(K) = Len(H) => y.p = D,
         E = y.p + u,
         EntriesOK(F, A, B), HoldsOK(A, H), Exact(F, A, H, D)
  PROVE  Exact(G, A, M, E)
<1>0. /\ Len(F) \in Nat /\ Len(G) = Len(F) + 1 /\ G[Len(G)] = x /\ Len(F) \in 1 .. Len(F)
      /\ \A i \in 1 .. Len(G) : i = Len(G) \/ (i \in 1 .. Len(F) /\ G[i] = F[i])
      /\ \A i \in 1 .. Len(F) : G[i] = F[i]
  BY DEF Pushed, TypedFrames
<1>h. /\ Len(H) \in Nat /\ Len(K) <= Len(H) /\ Len(M) = Len(K) + 1 /\ M[Len(M)] = y /\ Len(M) \in 1 .. Len(M)
      /\ \A h \in 1 .. Len(M) : h = Len(M) \/ (h \in 1 .. Len(K) /\ h \in 1 .. Len(H) /\ M[h] = H[h])
      /\ \A h \in 1 .. Len(K) : h \in 1 .. Len(M) /\ M[h] = H[h]
  BY DEF Pushed, Cut, TypedHolds
<1>a. \A h \in 1 .. Len(H) : H[h].a \in Nat /\ H[h].a <= Len(A)
  BY DEF TypedHolds, HoldsOK, HoldsOfActivations
<1>e. /\ Len(A) > 0 /\ F[Len(F)].token = A[Len(A)].token
      /\ \A j \in 1 .. Len(F) : F[j].token = A[Len(A)].token => j = Len(F)
  <2>1. \A j \in 1 .. Len(F) : j > Len(F) => F[j].kind # "fn"
    BY <1>0
  <2>2. EntryHasFrame(F, A)
    BY DEF Exact
  <2> QED
    BY <1>0, <2>1, <2>2, InnermostEntry
<1>i. Len(A) \in Nat /\ Len(A) \in 1 .. Len(A) /\ \A k \in 1 .. Len(A) : A[k].token # 0
  BY <1>e DEF TypedEntries
<1>f. ~F[Len(F)].leaked => \A h \in 1 .. Len(H) : H[h].a # Len(A)
  BY <1>0, <1>e, SMTT(30) DEF Exact, HoldIsOfSpread
<1>g. ~F[Len(F)].leaked => Len(K) = Len(H) /\ y.p = D
  <2>1. SUFFICES ASSUME ~F[Len(F)].leaked PROVE Len(K) = Len(H)
    OBVIOUS
  <2>2. ~(Len(K) < Len(H))
    BY <2>1, <1>f, <1>h
  <2> QED
    BY <2>2, <1>h
<1>d. Clear(F, Len(F)) => E = D + u /\ D = LiveAt(F, Len(F)) /\ ~F[Len(F)].leaked
  BY <1>0, <1>g DEF Clear, Exact, DepthExact
<1>n. /\ EntryHasFrame(G, A) /\ ApplyExact(G) /\ EntryExact(G, A) /\ DepthExact(G, E)
      /\ \A n \in 0 .. Len(F) : (Clear(G, n) <=> Clear(F, n)) /\ LiveAt(G, n) = LiveAt(F, n)
  <2>1. NativePush(F, G, D, E, u, x)
    BY <1>d DEF NativePush
  <2> QED
    BY <2>1, NativeExact, Zenon
<1>m. \A h \in 1 .. Len(M) : M[h].a > 0 => M[h].a \in 1 .. Len(A)
  <2>1. ASSUME NEW h \in 1 .. Len(M), M[h].a > 0 PROVE M[h].a \in 1 .. Len(A)
    <3>1. CASE h = Len(M)
      BY <3>1, <1>h, <1>i
    <3>2. CASE h # Len(M)
      <4>1. h \in 1 .. Len(H) /\ M[h] = H[h]
        BY <3>2, <1>h
      <4> QED
        BY <2>1, <4>1, <1>a, <1>i
    <3> QED
      BY <3>1, <3>2
  <2> QED
    BY <2>1
<1>t. \A j \in 1 .. Len(G), k \in 1 .. Len(A) :
         G[j].token = A[k].token => j \in 1 .. Len(F) /\ G[j] = F[j]
  BY <1>0, <1>i
<1>1. HoldIsOfSpread(G, A, M)
  <2>1. SUFFICES ASSUME NEW h \in 1 .. Len(M), NEW j \in 1 .. Len(G), M[h].a > 0,
                        G[j].token = A[M[h].a].token, ~G[j].leaked
                 PROVE  /\ j < Len(G) /\ G[j + 1].kind = "spread" /\ G[j + 1].id = M[h].i
                        /\ Clear(G, j) => M[h].p = G[j].live
    BY DEF HoldIsOfSpread
  <2>2. M[h].a \in 1 .. Len(A)
    BY <2>1, <1>m
  <2>3. j \in 1 .. Len(F) /\ j \in 0 .. Len(F) /\ G[j] = F[j]
    BY <2>1, <2>2, <1>t, SMTT(30)
  <2>4. Clear(G, j) <=> Clear(F, j)
    BY <2>3, <1>n, Zenon
  <2>5. CASE h = Len(M)
    <3>1. M[h] = y /\ j = Len(F)
      BY <2>1, <2>3, <2>5, <1>h, <1>e
    <3>2. y.p = D
      BY <2>1, <2>3, <3>1, <1>g
    <3>3. j < Len(G) /\ G[j + 1] = x
      BY <3>1, <1>0
    <3>4. LiveAt(F, j) = F[j].live
      BY <2>3 DEF LiveAt
    <3>5. Clear(G, j) => D = F[j].live
      BY <2>4, <3>1, <3>4, <1>d
    <3> QED
      BY <2>3, <3>1, <3>2, <3>3, <3>5
  <2>6. CASE h # Len(M)
    <3>1. h \in 1 .. Len(H) /\ M[h] = H[h]
      BY <2>6, <1>h
    <3>2. /\ j < Len(F) /\ F[j + 1].kind = "spread" /\ F[j + 1].id = H[h].i
          /\ Clear(F, j) => H[h].p = F[j].live
      BY <2>1, <2>3, <3>1 DEF Exact, HoldIsOfSpread
    <3>3. j + 1 \in 1 .. Len(F) /\ j < Len(G)
      BY <2>3, <3>2, <1>0
    <3>4. G[j + 1] = F[j + 1]
      BY <3>3, <1>0
    <3> QED
      BY <2>3, <2>4, <3>1, <3>2, <3>3, <3>4
  <2> QED
    BY <2>5, <2>6
<1>2. HoldIsSingle(G, A, M)
  <2>1. SUFFICES ASSUME NEW g \in 1 .. Len(M), NEW h \in 1 .. Len(M), NEW j \in 1 .. Len(G), M[h].a > 0,
                        G[j].token = A[M[h].a].token, ~G[j].leaked, M[g].a = M[h].a
                 PROVE  g = h
    BY DEF HoldIsSingle
  <2>2. M[h].a \in 1 .. Len(A)
    BY <2>1, <1>m
  <2>3. j \in 1 .. Len(F) /\ G[j] = F[j]
    BY <2>1, <2>2, <1>t
  <2>4. CASE M[h].a = Len(A)
    <3>1. j = Len(F) /\ ~F[Len(F)].leaked
      BY <2>1, <2>3, <2>4, <1>e
    <3>2. g = Len(M) /\ h = Len(M)
      BY <2>1, <2>4, <3>1, <1>f, <1>h
    <3> QED
      BY <3>2
  <2>5. CASE M[h].a # Len(A)
    <3>1. g \in 1 .. Len(H) /\ M[g] = H[g] /\ h \in 1 .. Len(H) /\ M[h] = H[h]
      BY <2>1, <2>5, <1>h
    <3> QED
      BY <2>1, <2>3, <3>1 DEF HoldIsSingle, Exact
  <2> QED
    BY <2>4, <2>5
<1>3. SpreadHasHold(G, A, M)
  <2>1. SUFFICES ASSUME NEW j \in 2 .. Len(G), G[j].kind = "spread", ~G[j - 1].leaked
                 PROVE  \E h \in 1 .. Len(M) : M[h].a > 0 /\ G[j - 1].token = A[M[h].a].token
    BY DEF SpreadHasHold
  <2>2. CASE j = Len(G)
    <3>1. G[j - 1] = F[Len(F)]
      BY <2>2, <1>0
    <3> QED
      BY <3>1, <1>e, <1>h
  <2>3. CASE j # Len(G)
    <3>1. j \in 2 .. Len(F) /\ G[j] = F[j] /\ G[j - 1] = F[j - 1] /\ j - 1 \in 1 .. Len(F) /\ j - 1 # Len(F)
      BY <2>3, <1>0
    <3>2. PICK h \in 1 .. Len(H) : H[h].a > 0 /\ F[j - 1].token = A[H[h].a].token
      BY <2>1, <3>1 DEF SpreadHasHold, Exact
    <3>3. H[h].a # Len(A)
      BY <3>1, <3>2, <1>e
    <3>4. h \in 1 .. Len(K)
      BY <3>3, <1>h
    <3> QED
      BY <3>1, <3>2, <3>4, <1>h
  <2> QED
    BY <2>2, <2>3
<1> QED
  BY <1>n, <1>1, <1>2, <1>3, Zenon DEF Exact

-------------------------------------------------------------------------------
(***************************************************************************)
(* The steps.                                                              *)
(***************************************************************************)
\* The types of a state, in the form in which the lemmas above use them.
LEMMA Typed ==
  ASSUME BudgetTypeOK
  PROVE  /\ TypedFrames(frames) /\ TypedEntries(acts) /\ TypedHolds(holds)
         /\ stackDepth \in Nat /\ NR_LIMIT \in Nat
         /\ \A j \in 1 .. Len(frames) : frames[j] \in Frames
         /\ \A k \in 1 .. Len(acts) : acts[k] \in Entries
         /\ \A h \in 1 .. Len(holds) : holds[h] \in Holdings
<1>1. /\ Len(frames) \in Nat /\ Len(acts) \in Nat /\ Len(holds) \in Nat
      /\ stackDepth \in Nat /\ NR_LIMIT \in Nat
  BY LimitAssumption, LenProperties DEF BudgetTypeOK, Depths
<1>2. \A j \in 1 .. Len(frames) : frames[j] \in Frames
  BY ElementOfSeq DEF BudgetTypeOK
<1>3. \A k \in 1 .. Len(acts) : acts[k] \in Entries
  BY ElementOfSeq DEF BudgetTypeOK
<1>4. \A h \in 1 .. Len(holds) : holds[h] \in Holdings
  BY ElementOfSeq DEF BudgetTypeOK
<1>5. TypedFrames(frames)
  BY <1>1, <1>2 DEF TypedFrames, Frames, Depths
<1>6. TypedEntries(acts)
  BY <1>1, <1>3 DEF TypedEntries, Entries, Depths, Tokens
<1>7. TypedHolds(holds)
  BY <1>1, <1>4 DEF TypedHolds, Holdings, Depths
<1> QED
  BY <1>1, <1>2, <1>3, <1>4, <1>5, <1>6, <1>7

\* A new frame.
LEMMA NewFrame ==
  ASSUME BudgetTypeOK, NEW u \in Nat, NEW kd \in {"fn", "apply", "copies", "spread"}
  PROVE  /\ Frame(kd, u) \in Frames
         /\ Frame(kd, u).kind = kd /\ Frame(kd, u).token = 0 /\ Frame(kd, u).p = stackDepth
         /\ Frame(kd, u).units = 0 /\ ~Frame(kd, u).leaked
         /\ Frame(kd, u).live = LiveUnits + u /\ LiveUnits \in Nat
         /\ LiveUnits = LiveAt(frames, Len(frames))
         /\ Len(frames) > 0 => LiveUnits = frames[Len(frames)].live
<1>1. /\ LiveUnits \in Nat /\ LiveUnits = LiveAt(frames, Len(frames))
      /\ Len(frames) > 0 => LiveUnits = frames[Len(frames)].live
  <2>1. CASE frames = <<>>
    <3>1. Len(frames) = 0
      BY <2>1, EmptySeq
    <3> QED
      BY <2>1, <3>1 DEF LiveUnits, LiveAt
  <2>2. CASE frames # <<>>
    <3>1. Len(frames) > 0 /\ Last1(frames) = frames[Len(frames)] /\ frames[Len(frames)] \in Frames
      BY <2>2, FrontOf DEF BudgetTypeOK
    <3>2. frames[Len(frames)].live \in Nat
      BY <3>1 DEF Frames
    <3> QED
      BY <2>2, <3>1, <3>2 DEF LiveUnits, LiveAt
  <2> QED
    BY <2>1, <2>2
<1>2. Frame(kd, u) \in Frames
  BY <1>1 DEF Frame, Frames, BudgetTypeOK
<1> QED
  BY <1>1, <1>2 DEF Frame

\* What __nstRelease leaves: at most the top hold goes, it is one of the innermost
\* activation, and the depth it restores covers all functions on the stack.
LEMMA Released ==
  ASSUME BudgetTypeOK, Covered(frames, acts, holds, byHand, stackDepth), NEW id
  PROVE  /\ HoldsReleased(id) \in Seq(Holdings) /\ Len(HoldsReleased(id)) \in Nat
         /\ Cut(holds, HoldsReleased(id))
         /\ \A h \in 1 .. Len(holds) : h > Len(HoldsReleased(id)) => holds[h].a = Len(acts)
         /\ Len(HoldsReleased(id)) = Len(holds) => DepthReleased(id) = stackDepth
         /\ Releases(id) => Len(HoldsReleased(id)) = Len(holds) - 1
         /\ DepthReleased(id) \in Depths /\ FunctionsCovered(frames, DepthReleased(id))
<1>0. /\ Len(holds) \in Nat /\ holds \in Seq(Holdings) /\ stackDepth \in Depths /\ Len(acts) \in Nat
  BY Typed DEF BudgetTypeOK, TypedHolds, TypedEntries
<1>1. CASE ~Releases(id)
  <2>1. HoldsReleased(id) = holds /\ DepthReleased(id) = stackDepth
    BY <1>1 DEF HoldsReleased, DepthReleased
  <2>2. FunctionsCovered(frames, stackDepth)
    BY DEF Covered, DepthOK
  <2>3. Cut(holds, holds)
    BY <1>0 DEF Cut
  <2> QED
    BY <1>0, <1>1, <2>1, <2>2, <2>3
<1>2. CASE Releases(id)
  <2>1. /\ holds # <<>> /\ Last1(holds).a = Len(acts)
        /\ HoldsReleased(id) = Front1(holds) /\ DepthReleased(id) = Last1(holds).p
    BY <1>2 DEF HoldsReleased, DepthReleased, Releases, ActN
  <2>2. /\ Front1(holds) \in Seq(Holdings) /\ Len(Front1(holds)) = Len(holds) - 1
        /\ \A i \in 1 .. Len(holds) - 1 : Front1(holds)[i] = holds[i]
        /\ Len(holds) > 0 /\ Last1(holds) = holds[Len(holds)] /\ holds[Len(holds)] \in Holdings
    BY <1>0, <2>1, FrontOf
  <2>3. Cut(holds, Front1(holds)) /\ Len(Front1(holds)) \in Nat
    BY <1>0, <2>2 DEF Cut
  <2>4. \A h \in 1 .. Len(holds) : h > Len(Front1(holds)) => holds[h].a = Len(acts)
    BY <1>0, <2>1, <2>2
  <2>5. FunctionsCovered(frames, holds[Len(holds)].p)
    <3>1. SUFFICES ASSUME NEW j \in 1 .. Len(frames), frames[j].kind = "fn"
                   PROVE  frames[j].live <= holds[Len(holds)].p
      BY DEF FunctionsCovered
    <3>2. PICK k \in 1 .. Len(acts) : frames[j].token = acts[k].token
      BY <3>1 DEF Covered, EntriesOK, HasEntry
    <3>3. Len(holds) \in 1 .. Len(holds) /\ k <= holds[Len(holds)].a
      BY <1>0, <2>1, <2>2
    <3> QED
      BY <3>2, <3>3 DEF Covered, RecordsOK, HoldCovers
  <2> QED
    BY <1>0, <2>1, <2>2, <2>3, <2>4, <2>5 DEF Holdings
<1> QED
  BY <1>1, <1>2

\* The units of an apply, a spread call or a bind are a number.
LEMMA UnitsNat == ASSUME NEW n \in ArgCounts, NEW base \in Nat PROVE Units(n, base) \in Nat
  BY WeightsAssumption, UnitsAssumption DEF Units

\* A function is called.
LEMMA StepEnter ==
  ASSUME BudgetInv, NEW w \in Nat, ~faulted, Fits(w), Enter(w, FreshToken),
         frames' = Append(frames, [Frame("fn", w) EXCEPT !.token = FreshToken]),
         UNCHANGED <<holds, applyAct, faulted, byHand, handsLeft>>
  PROVE  BudgetInv'
<1> DEFINE x == [Frame("fn", w) EXCEPT !.token = FreshToken]
           e == [depth |-> stackDepth, token |-> FreshToken]
<1>1. BudgetTypeOK /\ Covered(frames, acts, holds, byHand, stackDepth)
  BY DEF BudgetInv
<1>2. /\ FreshToken \in Tokens /\ FreshToken \notin byHand
      /\ \A k \in 1 .. Len(acts) : acts[k].token # FreshToken
      /\ \A j \in 1 .. Len(frames) : frames[j].token # FreshToken
  BY <1>1, FreshTokenIsFresh
<1> HIDE DEF FreshToken
<1>3. /\ TypedFrames(frames) /\ TypedEntries(acts) /\ TypedHolds(holds)
      /\ stackDepth \in Nat /\ Len(frames) \in Nat
  BY <1>1, Typed DEF TypedFrames
<1>4. /\ Frame("fn", w) \in Frames /\ Frame("fn", w).kind = "fn"
      /\ Frame("fn", w).units = 0 /\ ~Frame("fn", w).leaked
      /\ Frame("fn", w).live = LiveUnits + w /\ LiveUnits \in Nat
      /\ LiveUnits = LiveAt(frames, Len(frames))
      /\ Len(frames) > 0 => LiveUnits = frames[Len(frames)].live
  BY <1>1, NewFrame
<1>5. /\ x \in Frames /\ x.kind = "fn" /\ x.units = 0 /\ ~x.leaked /\ x.token = FreshToken
      /\ x.live = LiveUnits + w
  BY <1>2, <1>4 DEF Frames, Tokens
<1>6. e \in Entries /\ e.depth = stackDepth /\ e.token = FreshToken
  BY <1>1, <1>2 DEF Entries, BudgetTypeOK
<1>7. acts' = Append(acts, e) /\ stackDepth' = stackDepth + w /\ frames' = Append(frames, x)
  BY DEF Enter
<1> HIDE DEF x, e
<1>8. acts' \in Seq(Entries) /\ Pushed(acts, acts', e)
  BY <1>1, <1>3, <1>6, <1>7, AppendOf DEF BudgetTypeOK, Pushed
<1>9. frames' \in Seq(Frames) /\ Pushed(frames, frames', x)
  BY <1>1, <1>3, <1>5, <1>7, AppendOf DEF BudgetTypeOK, Pushed
<1>10. BudgetTypeOK'
  <2>1. stackDepth' \in Depths
    BY <1>3, <1>7 DEF Depths
  <2> QED
    BY <2>1, <1>1, <1>8, <1>9 DEF BudgetTypeOK
<1>t. Len(frames) > 0 => frames[Len(frames)].live <= stackDepth
  BY <1>1 DEF Covered, DepthOK, TopCovered
<1>u. LiveUnits <= stackDepth
  <2>1. CASE Len(frames) > 0
    BY <2>1, <1>4, <1>t
  <2>2. CASE Len(frames) = 0
    BY <2>2, <1>3, <1>4 DEF LiveAt
  <2> QED
    BY <2>1, <2>2, <1>3
<1>f. FunctionsCovered(frames, stackDepth)
  BY <1>1 DEF Covered, DepthOK
<1>11. /\ FramesOK(frames') /\ EntriesOK(frames', acts', byHand) /\ HoldsOK(acts', holds)
       /\ RecordsOK(frames', acts', holds)
  <2>1. /\ x.live \in Nat /\ x.token = e.token /\ e.token # 0 /\ e.token \notin byHand
        /\ \A k \in 1 .. Len(acts) : acts[k].token # e.token
        /\ \A j \in 1 .. Len(frames) : frames[j].token # e.token
    BY <1>2, <1>4, <1>5, <1>6 DEF Tokens
  <2>2. /\ Len(frames) > 0 => x.live >= frames[Len(frames)].live /\ frames[Len(frames)].live <= e.depth
        /\ x.live + x.units <= NR_LIMIT
    BY <1>3, <1>4, <1>5, <1>6, <1>t, <1>u, LimitAssumption DEF Fits
  <2>3. FunctionsCovered(frames, e.depth)
    BY <1>6, <1>f
  <2>4. FramesOK(frames) /\ EntriesOK(frames, acts, byHand) /\ HoldsOK(acts, holds) /\ RecordsOK(frames, acts, holds)
    BY <1>1 DEF Covered
  <2> QED
    BY <1>3, <1>5, <1>8, <1>9, <2>1, <2>2, <2>3, <2>4, PushFunction
<1>12. DepthOK(frames', stackDepth')
  <2>1. /\ Len(frames') = Len(frames) + 1 /\ frames'[Len(frames')] = x
        /\ \A i \in 1 .. Len(frames') : i = Len(frames') \/ (i \in 1 .. Len(frames) /\ frames'[i] = frames[i])
    BY <1>3, <1>9 DEF Pushed
  <2>2. x.live <= stackDepth'
    BY <1>u, <1>3, <1>4, <1>5, <1>7
  <2>3. \A j \in 1 .. Len(frames) : frames[j].kind = "fn" => frames[j].live <= stackDepth'
    BY <1>3, <1>7, <1>f DEF FunctionsCovered, TypedFrames
  <2> QED
    BY <2>1, <2>2, <2>3 DEF DepthOK, FunctionsCovered, TopCovered
<1>13. HandsOff' => Exact(frames', acts', holds, stackDepth')
  <2>1. SUFFICES ASSUME HandsOff' PROVE Exact(frames', acts', holds, stackDepth')
    OBVIOUS
  <2>2. Exact(frames, acts, holds, stackDepth)
    BY <2>1 DEF BudgetInv, HandsOff
  <2>3. HoldsOK(acts, holds)
    BY <1>1 DEF Covered
  <2>4. Exact(frames', acts', holds, stackDepth + w)
    BY <1>2, <1>3, <1>4, <1>5, <1>6, <1>8, <1>9, <2>2, <2>3, EnterExact
  <2> QED
    BY <2>4, <1>7
<1> QED
  BY <1>10, <1>11, <1>12, <1>13 DEF BudgetInv, Covered

\* The frames below the top.
LEMMA PoppedFrames ==
  ASSUME BudgetTypeOK, frames # <<>>
  PROVE  /\ Front1(frames) \in Seq(Frames) /\ Popped(frames, Front1(frames)) /\ Len(Front1(frames)) \in Nat
         /\ Len(frames) \in Nat /\ Len(frames) > 0 /\ Len(frames) \in 1 .. Len(frames)
         /\ Last1(frames) = frames[Len(frames)] /\ frames[Len(frames)] \in Frames
         /\ Len(Front1(frames)) = Len(frames) - 1
         /\ \A j \in 1 .. Len(Front1(frames)) : Front1(frames)[j] = frames[j] /\ j \in 1 .. Len(frames)
<1>1. frames \in Seq(Frames)
  BY DEF BudgetTypeOK
<1>2. /\ Front1(frames) \in Seq(Frames) /\ Len(Front1(frames)) = Len(frames) - 1
      /\ \A i \in 1 .. Len(frames) - 1 : Front1(frames)[i] = frames[i]
      /\ Len(frames) \in Nat /\ Len(frames) > 0 /\ Last1(frames) = frames[Len(frames)]
      /\ frames[Len(frames)] \in Frames
  BY <1>1, FrontOf
<1> QED
  BY <1>2 DEF Popped

\* Under a native frame there is another one, and under a spread call the function
\* that made it.
LEMMA BelowNative ==
  ASSUME BudgetInv, frames # <<>>, Last1(frames).kind # "fn"
  PROVE  /\ Len(frames) \in Nat /\ Len(frames) \in 2 .. Len(frames)
         /\ Len(frames) \in 1 .. Len(frames) /\ Len(frames) - 1 \in 1 .. Len(frames)
         /\ Last1(frames).kind = "spread" => frames[Len(frames) - 1].kind = "fn"
<1>1. BudgetTypeOK /\ BottomIsFunction(frames) /\ SpreadInFunction(frames)
  BY DEF BudgetInv, Covered, FramesOK
<1>2. /\ Len(frames) \in Nat /\ Len(frames) > 0 /\ Len(frames) \in 1 .. Len(frames)
      /\ Last1(frames) = frames[Len(frames)]
  BY <1>1, PoppedFrames
<1>3. Len(frames) # 1
  BY <1>1, <1>2 DEF BottomIsFunction
<1> QED
  BY <1>1, <1>2, <1>3 DEF SpreadInFunction

\* A frame of an apply is pushed, onto the stack P: it holds its units or has yet to
\* copy.
LEMMA PushApply ==
  ASSUME BudgetInv, NEW P \in Seq(Frames), Len(P) > 0, NEW u \in Nat, NEW x \in Frames, ~faulted,
         FramesOK(P), EntriesOK(P, acts, byHand), RecordsOK(P, acts, holds), DepthOK(P, stackDepth),
         HandsOff => Exact(P, acts, holds, stackDepth),
         x.kind \in {"apply", "copies"}, x.token = 0, ~x.leaked, x.p = stackDepth,
         x.live = P[Len(P)].live + u, x.live + x.units <= NR_LIMIT, x.kind = "copies" => u = 0,
         frames' = Append(P, x), stackDepth' = stackDepth + u, applyAct' \in Int,
         UNCHANGED <<acts, holds, faulted, byHand, handsLeft>>
  PROVE  BudgetInv'
<1>1. BudgetTypeOK /\ Covered(frames, acts, holds, byHand, stackDepth)
  BY DEF BudgetInv
<1>2. TypedEntries(acts) /\ TypedHolds(holds) /\ stackDepth \in Nat /\ Len(acts) \in Nat
  BY <1>1, Typed DEF TypedEntries
<1>3. Len(P) \in Nat /\ TypedFrames(P) /\ Len(P) \in 1 .. Len(P) /\ P[Len(P)].live \in Nat
  <2>1. Len(P) \in Nat /\ \A j \in 1 .. Len(P) : P[j] \in Frames
    BY ElementOfSeq, LenProperties
  <2>2. Len(P) \in 1 .. Len(P)
    BY <2>1
  <2>3. TypedFrames(P)
    BY <2>1 DEF TypedFrames, Frames, Depths
  <2> QED
    BY <2>1, <2>2, <2>3 DEF TypedFrames
<1>4. frames' \in Seq(Frames) /\ Pushed(P, frames', x)
  BY <1>3, AppendOf DEF Pushed
<1>5. BudgetTypeOK'
  <2>1. stackDepth' \in Depths
    BY <1>2 DEF Depths
  <2> QED
    BY <2>1, <1>1, <1>4 DEF BudgetTypeOK
<1>t. P[Len(P)].live <= stackDepth
  BY DEF DepthOK, TopCovered
<1>6. FramesOK(frames') /\ EntriesOK(frames', acts, byHand) /\ RecordsOK(frames', acts, holds)
  <2>1. /\ x.live \in Nat /\ x.live >= P[Len(P)].live /\ x.kind # "fn"
        /\ x.kind = "copies" => x.live = P[Len(P)].live
        /\ x.kind = "apply" => P[Len(P)].live <= x.p
        /\ x.kind = "spread" => P[Len(P)].kind = "fn"
    BY <1>3, <1>t
  <2> QED
    BY <1>2, <1>3, <1>4, <2>1, PushNative
<1>7. DepthOK(frames', stackDepth')
  <2>1. /\ Len(frames') = Len(P) + 1 /\ frames'[Len(frames')] = x
        /\ \A i \in 1 .. Len(frames') : i = Len(frames') \/ (i \in 1 .. Len(P) /\ frames'[i] = P[i])
    BY <1>3, <1>4 DEF Pushed
  <2>2. x.live <= stackDepth' /\ x.kind # "fn"
    BY <1>2, <1>3, <1>t
  <2>3. \A j \in 1 .. Len(P) : P[j].kind = "fn" => P[j].live <= stackDepth'
    BY <1>2, <1>3 DEF DepthOK, FunctionsCovered, TypedFrames
  <2> QED
    BY <2>1, <2>2, <2>3 DEF DepthOK, FunctionsCovered, TopCovered
<1>8. HoldsOK(acts, holds)
  BY <1>1 DEF Covered
<1>9. HandsOff' => Exact(frames', acts, holds, stackDepth')
  <2>1. SUFFICES ASSUME HandsOff' PROVE Exact(frames', acts, holds, stackDepth')
    OBVIOUS
  <2>2. Exact(P, acts, holds, stackDepth)
    BY <2>1 DEF HandsOff
  <2>3. x.live = LiveAt(P, Len(P)) + u
    BY <1>3 DEF LiveAt
  <2>4. Exact(frames', acts, holds, stackDepth + u)
    BY <1>2, <1>3, <1>4, <1>8, <2>2, <2>3, ApplyPushExact
  <2> QED
    BY <2>4
<1> QED
  BY <1>5, <1>6, <1>7, <1>8, <1>9 DEF BudgetInv, Covered

\* What an apply finds: a stack within the depth.
LEMMA StackOfApply ==
  ASSUME BudgetInv, frames # <<>>
  PROVE  /\ frames \in Seq(Frames) /\ Len(frames) > 0 /\ LiveUnits = frames[Len(frames)].live
         /\ LiveUnits \in Nat /\ stackDepth \in Nat /\ LiveUnits <= stackDepth
         /\ FramesOK(frames) /\ EntriesOK(frames, acts, byHand) /\ RecordsOK(frames, acts, holds)
         /\ DepthOK(frames, stackDepth) /\ (HandsOff => Exact(frames, acts, holds, stackDepth))
<1>1. BudgetTypeOK /\ Covered(frames, acts, holds, byHand, stackDepth)
  BY DEF BudgetInv
<1>2. Len(frames) > 0 /\ stackDepth \in Nat
  BY <1>1, PoppedFrames, Typed
<1>3. LiveUnits = frames[Len(frames)].live /\ LiveUnits \in Nat
  BY <1>1, <1>2, NewFrame
<1> QED
  BY <1>1, <1>2, <1>3 DEF BudgetInv, BudgetTypeOK, Covered, DepthOK, TopCovered

\* An apply is made.
LEMMA StepApply ==
  ASSUME BudgetInv, NEW u \in Nat, frames # <<>>, ~faulted, Fits(u), ApplyHolds(frames, u)
  PROVE  BudgetInv'
<1> DEFINE x == Frame("apply", u)
<1>1. BudgetTypeOK /\ Len(acts) \in Nat
  BY Typed DEF BudgetInv, TypedEntries
<1>2. /\ x \in Frames /\ x.kind = "apply" /\ x.token = 0 /\ x.p = stackDepth
      /\ x.units = 0 /\ ~x.leaked /\ x.live = LiveUnits + u
  BY <1>1, NewFrame
<1>3. /\ frames' = Append(frames, x) /\ stackDepth' = stackDepth + u /\ applyAct' = ActN
      /\ UNCHANGED <<acts, holds, faulted, byHand, handsLeft>>
  BY DEF ApplyHolds
<1>4. applyAct' \in Int
  BY <1>1, <1>3 DEF ActN
<1> HIDE DEF x
<1>5. x.live + x.units <= NR_LIMIT
  BY <1>2, StackOfApply, LimitAssumption DEF Fits
<1> QED
  BY <1>2, <1>3, <1>4, <1>5, StackOfApply, PushApply

\* An apply begins to copy the elements of an array-like.
LEMMA StepApplyLike ==
  ASSUME BudgetInv, NEW u \in Nat, frames # <<>>, ~faulted, Fits(u),
         frames' = Append(frames, [Frame("copies", 0) EXCEPT !.units = u]),
         UNCHANGED <<stackDepth, acts, holds, applyAct, faulted, byHand, handsLeft>>
  PROVE  BudgetInv'
<1> DEFINE x == [Frame("copies", 0) EXCEPT !.units = u]
<1>1. BudgetTypeOK
  BY DEF BudgetInv
<1>2. /\ Frame("copies", 0) \in Frames /\ Frame("copies", 0).kind = "copies" /\ Frame("copies", 0).token = 0
      /\ Frame("copies", 0).p = stackDepth /\ ~Frame("copies", 0).leaked
      /\ Frame("copies", 0).live = LiveUnits + 0
  BY <1>1, NewFrame
<1>3. /\ x \in Frames /\ x.kind = "copies" /\ x.token = 0 /\ x.p = stackDepth
      /\ x.units = u /\ ~x.leaked /\ x.live = LiveUnits + 0
  BY <1>2 DEF Frames
<1>4. frames' = Append(frames, x) /\ stackDepth' = stackDepth + 0 /\ applyAct' \in Int
  BY <1>1, StackOfApply DEF BudgetTypeOK
<1> HIDE DEF x
<1>5. x.live + x.units <= NR_LIMIT
  BY <1>3, StackOfApply, LimitAssumption DEF Fits
<1>6. 0 \in Nat
  OBVIOUS
<1> QED
  BY <1>3, <1>4, <1>5, <1>6, StackOfApply, PushApply

\* Under an apply that copies the stack is as it was before it, and within the depth.
LEMMA PopCopies ==
  ASSUME BudgetInv, frames # <<>>, Last1(frames).kind = "copies"
  PROVE  LET G == Front1(frames)
         IN  /\ G \in Seq(Frames) /\ Len(G) > 0 /\ G[Len(G)].live = LiveUnits
             /\ FramesOK(G) /\ EntriesOK(G, acts, byHand) /\ RecordsOK(G, acts, holds)
             /\ DepthOK(G, stackDepth) /\ (HandsOff => Exact(G, acts, holds, stackDepth))
<1> DEFINE n == Len(frames)
           G == Front1(frames)
<1>1. BudgetTypeOK /\ Covered(frames, acts, holds, byHand, stackDepth)
  BY DEF BudgetInv
<1>2. /\ G \in Seq(Frames) /\ Popped(frames, G) /\ Len(G) \in Nat /\ n \in Nat /\ n \in 1 .. n
      /\ Last1(frames) = frames[n] /\ Len(G) = n - 1 /\ frames[n].kind = "copies"
      /\ \A j \in 1 .. Len(G) : G[j] = frames[j] /\ j \in 1 .. n
  BY <1>1, PoppedFrames
<1>3. n \in 2 .. n /\ n - 1 \in 1 .. n /\ Len(G) \in 1 .. Len(G)
  BY <1>2, BelowNative
<1>4. TypedFrames(frames) /\ TypedEntries(acts) /\ TypedHolds(holds)
  BY <1>1, Typed
<1>5. /\ FramesOK(frames) /\ EntriesOK(frames, acts, byHand) /\ HoldsOK(acts, holds)
      /\ RecordsOK(frames, acts, holds) /\ DepthOK(frames, stackDepth)
  BY <1>1 DEF Covered
<1>l. LiveUnits = frames[n].live
  BY StackOfApply
<1> HIDE DEF n, G
<1>6. FramesOK(G) /\ EntriesOK(G, acts, byHand) /\ RecordsOK(G, acts, holds)
  BY <1>2, <1>4, <1>5, PopFrame DEF n
<1>7. G[Len(G)].live = frames[n].live
  <2>1. frames[n].live = frames[n - 1].live
    BY <1>2, <1>3, <1>5 DEF FramesOK, CopiesHoldNothing, n
  <2> QED
    BY <2>1, <1>2, <1>3
<1>8. DepthOK(G, stackDepth)
  <2>1. frames[n].live <= stackDepth
    BY <1>3, <1>5 DEF DepthOK, TopCovered, n
  <2>2. FunctionsCovered(G, stackDepth)
    BY <1>2, <1>5 DEF DepthOK, FunctionsCovered, n
  <2> QED
    BY <2>1, <2>2, <1>7 DEF DepthOK, TopCovered
<1>9. HandsOff => Exact(G, acts, holds, stackDepth)
  <2>1. SUFFICES ASSUME HandsOff PROVE Exact(G, acts, holds, stackDepth)
    OBVIOUS
  <2>2. Exact(frames, acts, holds, stackDepth)
    BY <2>1 DEF BudgetInv
  <2>3. Shrunk(frames, G) /\ Cut(acts, acts) /\ Cut(holds, holds) /\ Len(acts) \in Nat /\ Len(holds) \in Nat
    BY <1>2, <1>3, <1>4 DEF Shrunk, Cut, TypedEntries, TypedHolds, n
  <2>4. \A k \in 1 .. Len(acts) : frames[Len(frames)].token # acts[k].token
    <3>1. frames[n].token = 0
      BY <1>2, <1>5 DEF EntriesOK, HasEntry, n
    <3> QED
      BY <1>4, <3>1 DEF TypedEntries, n
  <2>5. \A h \in 1 .. Len(holds) : holds[h].a <= Len(acts)
    BY <1>5 DEF HoldsOK, HoldsOfActivations
  <2>6. \A h \in 1 .. Len(holds), j \in 1 .. Len(G) :
           h > Len(holds) /\ holds[h].a > 0 /\ frames[j].token = acts[holds[h].a].token => j = Len(G)
    BY <2>3
  <2>7. \A h \in 1 .. Len(holds), j \in 1 .. Len(G) :
           holds[h].a > 0 /\ frames[j].token = acts[holds[h].a].token /\ ~G[j].leaked => j < Len(G)
    <3>1. SUFFICES ASSUME NEW h \in 1 .. Len(holds), NEW j \in 1 .. Len(G), holds[h].a > 0,
                          frames[j].token = acts[holds[h].a].token, ~G[j].leaked
                   PROVE  j < Len(G)
      OBVIOUS
    <3>2. j \in 1 .. Len(frames) /\ G[j] = frames[j]
      BY <1>2 DEF n
    <3>3. j < Len(frames) /\ frames[j + 1].kind = "spread"
      BY <3>1, <3>2, <2>2 DEF Exact, HoldIsOfSpread
    <3>4. j + 1 # n
      BY <3>3, <1>2
    <3> QED
      BY <3>3, <3>4, <1>2 DEF n
  <2>8. Clear(G, Len(G)) => stackDepth = LiveAt(G, Len(G))
    <3>1. SUFFICES ASSUME Clear(G, Len(G)) PROVE stackDepth = LiveAt(G, Len(G))
      OBVIOUS
    <3>2. Clear(frames, n)
      BY <3>1, <1>2 DEF Clear
    <3>3. LiveAt(G, Len(G)) = frames[n].live /\ LiveAt(frames, n) = frames[n].live
      BY <1>2, <1>3, <1>7 DEF LiveAt
    <3> QED
      BY <3>2, <3>3, <2>2 DEF Exact, DepthExact, n
  <2> QED
    BY <1>2, <1>4, <1>5, <2>2, <2>3, <2>4, <2>5, <2>6, <2>7, <2>8, LeaveExact
<1> QED
  BY <1>2, <1>3, <1>6, <1>7, <1>8, <1>9, <1>l DEF G

\* The elements are copied: the apply holds what it reserved.
LEMMA StepCopied ==
  ASSUME BudgetInv, frames # <<>>, ~faulted, Last1(frames).kind = "copies",
         ApplyHolds(Front1(frames), Last1(frames).units)
  PROVE  BudgetInv'
<1> DEFINE G == Front1(frames)
           u == Last1(frames).units
           x == Frame("apply", u)
<1>1. BudgetTypeOK /\ Len(acts) \in Nat /\ FramesOK(frames)
  BY Typed DEF BudgetInv, Covered, TypedEntries
<1>2. u \in Nat /\ LiveUnits + u <= NR_LIMIT
  <2>1. Len(frames) \in 1 .. Len(frames) /\ Last1(frames) = frames[Len(frames)] /\ Last1(frames) \in Frames
    BY <1>1, PoppedFrames
  <2> QED
    BY <2>1, <1>1, StackOfApply DEF FramesOK, LiveInLimit, Frames
<1>3. /\ G \in Seq(Frames) /\ Len(G) > 0 /\ G[Len(G)].live = LiveUnits
      /\ FramesOK(G) /\ EntriesOK(G, acts, byHand) /\ RecordsOK(G, acts, holds)
      /\ DepthOK(G, stackDepth) /\ (HandsOff => Exact(G, acts, holds, stackDepth))
  BY PopCopies
<1> HIDE DEF u
<1>4. /\ x \in Frames /\ x.kind = "apply" /\ x.token = 0 /\ x.p = stackDepth
      /\ x.units = 0 /\ ~x.leaked /\ x.live = LiveUnits + u /\ LiveUnits \in Nat
  BY <1>1, <1>2, NewFrame
<1>5. /\ frames' = Append(G, x) /\ stackDepth' = stackDepth + u /\ applyAct' = ActN
      /\ UNCHANGED <<acts, holds, faulted, byHand, handsLeft>>
  BY DEF ApplyHolds, u
<1>6. applyAct' \in Int
  BY <1>1, <1>5 DEF ActN
<1> HIDE DEF x, G
<1>7. x.live + x.units <= NR_LIMIT
  BY <1>2, <1>4, LimitAssumption
<1> QED
  BY <1>2, <1>3, <1>4, <1>5, <1>6, <1>7, PushApply

\* A getter of the array-like throws: nothing was held yet.
LEMMA StepUnwindCopies ==
  ASSUME BudgetInv, frames # <<>>, Last1(frames).kind = "copies", frames' = Front1(frames),
         UNCHANGED <<stackDepth, acts, holds, applyAct, faulted, byHand, handsLeft>>
  PROVE  BudgetInv'
<1>1. BudgetTypeOK /\ HoldsOK(acts, holds)
  BY DEF BudgetInv, Covered
<1>2. /\ frames' \in Seq(Frames)
      /\ FramesOK(frames') /\ EntriesOK(frames', acts, byHand) /\ RecordsOK(frames', acts, holds)
      /\ DepthOK(frames', stackDepth) /\ (HandsOff => Exact(frames', acts, holds, stackDepth))
  BY PopCopies
<1>3. BudgetTypeOK' /\ (HandsOff' => HandsOff)
  BY <1>1, <1>2 DEF BudgetTypeOK, HandsOff
<1> QED
  BY <1>1, <1>2, <1>3 DEF BudgetInv, Covered

\* A hold is made, by a spread call or by hand: the holds, and what they restore.
LEMMA NewHold ==
  ASSUME BudgetInv, NEW u \in Nat, NEW id \in Sites, DepthReleased(id) + u <= NR_LIMIT, Hold(id, u)
  PROVE  LET y == [i |-> id, a |-> Len(acts), p |-> DepthReleased(id)]
         IN  /\ holds' \in Seq(Holdings) /\ stackDepth' \in Depths /\ DepthReleased(id) \in Nat
             /\ Pushed(HoldsReleased(id), holds', y)
             /\ HoldsOK(acts, holds') /\ RecordsOK(frames, acts, holds')
             /\ FunctionsCovered(frames, DepthReleased(id)) /\ FunctionsCovered(frames, stackDepth')
<1> DEFINE y == [i |-> id, a |-> Len(acts), p |-> DepthReleased(id)]
           K == HoldsReleased(id)
<1>1. BudgetTypeOK /\ Covered(frames, acts, holds, byHand, stackDepth)
  BY DEF BudgetInv
<1>2. TypedFrames(frames) /\ TypedEntries(acts) /\ TypedHolds(holds) /\ Len(acts) \in Nat
  BY <1>1, Typed DEF TypedEntries
<1>3. /\ K \in Seq(Holdings) /\ Len(K) \in Nat /\ Cut(holds, K)
      /\ DepthReleased(id) \in Depths /\ FunctionsCovered(frames, DepthReleased(id))
  BY <1>1, Released
<1>4. holds' = Append(K, y) /\ stackDepth' = DepthReleased(id) + u
  BY DEF Hold, ActN
<1>5. y \in Holdings /\ y.a = Len(acts) /\ y.p = DepthReleased(id) /\ y.p \in Nat
  BY <1>2, <1>3 DEF Holdings, Depths
<1> HIDE DEF y, K
<1>6. holds' \in Seq(Holdings) /\ Pushed(K, holds', y)
  BY <1>3, <1>4, <1>5, AppendOf DEF Pushed
<1>7. EntriesOK(frames, acts, byHand) /\ HoldsOK(acts, holds) /\ RecordsOK(frames, acts, holds)
  BY <1>1 DEF Covered
<1>8. HoldsOK(acts, K) /\ RecordsOK(frames, acts, K)
  BY <1>2, <1>3, <1>7, CutHolds
<1>9. TypedHolds(K)
  <2>1. \A h \in 1 .. Len(K) : K[h] \in Holdings
    BY <1>3, ElementOfSeq
  <2> QED
    BY <1>3, <2>1 DEF TypedHolds, Holdings, Depths
<1>10. FunctionsCovered(frames, y.p)
  BY <1>3, <1>5
<1>11. HoldsOK(acts, holds') /\ RecordsOK(frames, acts, holds')
  BY <1>2, <1>5, <1>6, <1>7, <1>8, <1>9, <1>10, PushHold
<1>12. DepthReleased(id) \in Nat /\ stackDepth' \in Depths
  BY <1>3, <1>4 DEF Depths
<1>13. FunctionsCovered(frames, stackDepth')
  BY <1>2, <1>3, <1>4, <1>12 DEF FunctionsCovered, TypedFrames
<1> QED
  BY <1>3, <1>6, <1>11, <1>12, <1>13 DEF y, K

\* A spread call is made.
LEMMA StepSpread ==
  ASSUME BudgetInv, NEW u \in Nat, NEW id \in Sites, frames # <<>>, Last1(frames).kind = "fn", ~faulted,
         DepthReleased(id) + u <= NR_LIMIT, Hold(id, u),
         frames' = Append(frames, [Frame("spread", u) EXCEPT !.id = id]),
         UNCHANGED <<acts, applyAct, faulted, byHand, handsLeft>>
  PROVE  BudgetInv'
<1> DEFINE x == [Frame("spread", u) EXCEPT !.id = id]
           y == [i |-> id, a |-> Len(acts), p |-> DepthReleased(id)]
           K == HoldsReleased(id)
<1>1. BudgetTypeOK /\ Covered(frames, acts, holds, byHand, stackDepth)
  BY DEF BudgetInv
<1>2. /\ holds' \in Seq(Holdings) /\ stackDepth' \in Depths /\ DepthReleased(id) \in Nat
      /\ Pushed(K, holds', y) /\ HoldsOK(acts, holds') /\ RecordsOK(frames, acts, holds')
      /\ FunctionsCovered(frames, DepthReleased(id)) /\ FunctionsCovered(frames, stackDepth')
  BY NewHold
<1>3. /\ TypedFrames(frames) /\ TypedEntries(acts) /\ TypedHolds(holds)
      /\ stackDepth \in Nat /\ Len(frames) \in Nat
  BY <1>1, Typed DEF TypedFrames
<1>4. /\ Frame("spread", u) \in Frames /\ Frame("spread", u).kind = "spread" /\ Frame("spread", u).token = 0
      /\ Frame("spread", u).units = 0 /\ ~Frame("spread", u).leaked
      /\ Frame("spread", u).live = LiveUnits + u /\ LiveUnits \in Nat
      /\ LiveUnits = LiveAt(frames, Len(frames))
      /\ Len(frames) > 0 => LiveUnits = frames[Len(frames)].live
  BY <1>1, NewFrame
<1>5. /\ x \in Frames /\ x.kind = "spread" /\ x.units = 0 /\ ~x.leaked /\ x.token = 0
      /\ x.live = LiveUnits + u /\ x.id = y.i /\ y.a = Len(acts) /\ y.p = DepthReleased(id)
  BY <1>4 DEF Frames
<1>6. stackDepth' = y.p + u
  BY DEF Hold
<1>7. frames' = Append(frames, x)
  OBVIOUS
<1> HIDE DEF x, y, K
<1>8. frames' \in Seq(Frames) /\ Pushed(frames, frames', x)
  BY <1>1, <1>3, <1>5, <1>7, AppendOf DEF BudgetTypeOK, Pushed
<1>9. BudgetTypeOK'
  BY <1>1, <1>2, <1>8 DEF BudgetTypeOK
<1>t. Len(frames) > 0 /\ Len(frames) \in 1 .. Len(frames) /\ frames[Len(frames)].kind = "fn"
  BY <1>1, PoppedFrames
<1>u. LiveUnits <= DepthReleased(id)
  BY <1>2, <1>4, <1>t DEF FunctionsCovered
<1>10. FramesOK(frames') /\ EntriesOK(frames', acts, byHand) /\ RecordsOK(frames', acts, holds')
  <2>1. /\ x.live \in Nat /\ x.live >= frames[Len(frames)].live /\ x.kind # "fn"
        /\ x.kind = "apply" => frames[Len(frames)].live <= x.p
        /\ x.kind = "spread" => frames[Len(frames)].kind = "fn"
        /\ x.live + x.units <= NR_LIMIT
        /\ x.kind = "copies" => x.live = frames[Len(frames)].live
    BY <1>2, <1>4, <1>5, <1>t, <1>u, LimitAssumption
  <2>2. FramesOK(frames) /\ EntriesOK(frames, acts, byHand)
    BY <1>1 DEF Covered
  <2>3. TypedHolds(holds')
    <3>1. \A h \in 1 .. Len(holds') : holds'[h] \in Holdings
      BY <1>2, ElementOfSeq
    <3> QED
      BY <1>2, <3>1, LenProperties DEF TypedHolds, Holdings, Depths
  <2> QED
    BY <1>2, <1>3, <1>5, <1>8, <1>t, <2>1, <2>2, <2>3, PushNative
<1>11. DepthOK(frames', stackDepth')
  <2>1. /\ Len(frames') = Len(frames) + 1 /\ frames'[Len(frames')] = x
        /\ \A i \in 1 .. Len(frames') : i = Len(frames') \/ (i \in 1 .. Len(frames) /\ frames'[i] = frames[i])
    BY <1>3, <1>8 DEF Pushed
  <2>3. x.live <= stackDepth' /\ x.kind # "fn"
    BY <1>u, <1>2, <1>4, <1>5, <1>6
  <2> QED
    BY <2>1, <2>3, <1>2 DEF DepthOK, FunctionsCovered, TopCovered
<1>12. HandsOff' => Exact(frames', acts, holds', stackDepth')
  <2>1. SUFFICES ASSUME HandsOff' PROVE Exact(frames', acts, holds', stackDepth')
    OBVIOUS
  <2>2. Exact(frames, acts, holds, stackDepth)
    BY <2>1 DEF BudgetInv, HandsOff
  <2>3. HoldsOK(acts, holds) /\ EntriesOK(frames, acts, byHand)
    BY <1>1 DEF Covered
  <2>4. /\ Len(K) \in Nat /\ Cut(holds, K)
        /\ \A h \in 1 .. Len(holds) : h > Len(K) => holds[h].a = Len(acts)
        /\ Len(K) = Len(holds) => y.p = stackDepth
    BY <1>1, <1>5, Released DEF K
  <2> QED
    BY <1>2, <1>3, <1>4, <1>5, <1>6, <1>8, <1>t, <2>2, <2>3, <2>4, SpreadPushExact
<1> QED
  BY <1>2, <1>9, <1>10, <1>11, <1>12 DEF BudgetInv, Covered

\* A function returns or throws: the entry of its frame goes if it is the innermost.
LEMMA StepLeaveFunction ==
  ASSUME BudgetInv, frames # <<>>, Last1(frames).kind = "fn", DepthExit(Last1(frames).token),
         frames' = Front1(frames), UNCHANGED <<applyAct, faulted, byHand, handsLeft>>
  PROVE  BudgetInv'
<1> DEFINE n == Len(frames)
           G == Front1(frames)
<1>1. BudgetTypeOK /\ Covered(frames, acts, holds, byHand, stackDepth)
  BY DEF BudgetInv
<1>2. /\ G \in Seq(Frames) /\ Popped(frames, G) /\ Len(G) \in Nat /\ n \in Nat /\ n > 0 /\ n \in 1 .. n
      /\ Last1(frames) = frames[n] /\ Len(G) = n - 1 /\ frames[n].kind = "fn"
      /\ \A j \in 1 .. Len(G) : G[j] = frames[j] /\ j \in 1 .. n
  BY <1>1, PoppedFrames
<1>3. /\ TypedFrames(frames) /\ TypedEntries(acts) /\ TypedHolds(holds) /\ stackDepth \in Nat
      /\ \A k \in 1 .. Len(acts) : acts[k] \in Entries
  BY <1>1, Typed
<1>4. /\ FramesOK(frames) /\ EntriesOK(frames, acts, byHand) /\ HoldsOK(acts, holds)
      /\ RecordsOK(frames, acts, holds) /\ DepthOK(frames, stackDepth)
  BY <1>1 DEF Covered
<1> HIDE DEF n, G
<1>5. FramesOK(G) /\ EntriesOK(G, acts, byHand) /\ RecordsOK(G, acts, holds)
  BY <1>2, <1>3, <1>4, PopFrame DEF n
<1>6. CASE ~Unwinds(frames[n].token)
  <2>1. UNCHANGED <<stackDepth, acts, holds>>
    BY <1>2, <1>6 DEF DepthExit
  <2>2. BudgetTypeOK'
    BY <1>1, <1>2, <2>1 DEF BudgetTypeOK, G
  <2>3. DepthOK(G, stackDepth)
    <3>1. frames[n].live <= stackDepth
      BY <1>2, <1>4 DEF DepthOK, FunctionsCovered, n
    <3>2. \A j \in 1 .. Len(G) : frames[j].live <= frames[n].live /\ frames[j].live \in Nat /\ frames[n].live \in Nat
      BY <1>2, <1>3, <1>4 DEF FramesOK, LiveGrows, TypedFrames, n
    <3>3. \A j \in 1 .. Len(G) : G[j].live <= stackDepth
      BY <1>2, <1>3, <3>1, <3>2
    <3> QED
      BY <1>2, <3>3 DEF DepthOK, FunctionsCovered, TopCovered
  <2>4. ~HandsOff
    <3>1. SUFFICES ASSUME HandsOff PROVE FALSE
      OBVIOUS
    <3>2. EntryHasFrame(frames, acts)
      BY <3>1 DEF BudgetInv, Exact
    <3>3. \A j \in 1 .. n : j > n => frames[j].kind # "fn"
      BY <1>2
    <3>4. Len(acts) > 0 /\ frames[n].token = acts[Len(acts)].token
      BY <1>2, <1>3, <1>4, <3>2, <3>3, InnermostEntry DEF n
    <3>5. acts # <<>>
      BY <3>4, <1>1, EmptySeq DEF BudgetTypeOK
    <3> QED
      BY <1>6, <3>4, <3>5 DEF Unwinds, Last1
  <2>5. ~HandsOff'
    BY <2>4 DEF HandsOff
  <2>6. Covered(G, acts, holds, byHand, stackDepth)
    BY <1>4, <1>5, <2>3 DEF Covered
  <2> QED
    BY <2>1, <2>2, <2>5, <2>6 DEF BudgetInv, G
<1>7. CASE Unwinds(frames[n].token)
  <2> DEFINE C == Front1(acts)
             K == HoldsBelow
             m == Len(acts)
  <2>1. /\ acts # <<>> /\ Last1(acts).token = frames[n].token
        /\ stackDepth' = Last1(acts).depth /\ acts' = C /\ holds' = K /\ frames' = G
    BY <1>2, <1>7 DEF DepthExit, Unwinds, G
  <2>2. /\ C \in Seq(Entries) /\ Len(C) = m - 1 /\ \A i \in 1 .. m - 1 : C[i] = acts[i]
        /\ m \in Nat /\ m > 0 /\ Last1(acts) = acts[m] /\ acts[m] \in Entries
    BY <1>1, <2>1, FrontOf DEF BudgetTypeOK
  <2>3. /\ K \in Seq(Holdings) /\ Len(K) \in 0 .. Len(holds)
        /\ \A h \in 1 .. Len(K) : K[h] = holds[h] /\ holds[h].a < m
        /\ \A h \in 1 .. Len(holds) : h > Len(K) => holds[h].a >= m
    BY <1>1, <1>4, HoldsBelowKeeps
  <2> HIDE DEF C, K, m
  <2>4. Popped(acts, C) /\ Cut(acts, C) /\ Len(C) \in Nat /\ m \in 1 .. m
    BY <2>2 DEF Popped, Cut, m
  <2>5. Len(holds) \in Nat /\ Len(K) \in Nat /\ Cut(holds, K)
    BY <1>3, <2>3 DEF TypedHolds, Cut
  <2>6. HoldsOK(acts, K) /\ RecordsOK(G, acts, K)
    BY <1>3, <1>4, <1>5, <2>5, CutHolds
  <2>7. TypedFrames(G) /\ TypedHolds(K)
    <3>1. TypedFrames(G)
      BY <1>2, <1>3 DEF TypedFrames, n
    <3>2. \A h \in 1 .. Len(K) : h \in 1 .. Len(holds) /\ K[h] = holds[h]
      BY <2>3, <2>5
    <3>3. TypedHolds(K)
      BY <1>3, <2>5, <3>2 DEF TypedHolds
    <3> QED
      BY <3>1, <3>3
  <2>8. frames[n].token = acts[m].token /\ \A j \in 1 .. Len(G) : G[j].token # acts[m].token
    <3>1. \A i, j \in 1 .. n, k \in 1 .. m : frames[i].token = acts[k].token /\ frames[j].token = acts[k].token => i = j
      BY <1>3, <1>4, OneFrame DEF n, m
    <3> QED
      BY <1>2, <2>1, <2>2, <2>4, <3>1
  <2>9. /\ EntriesOK(G, C, byHand) /\ HoldsOK(C, K) /\ RecordsOK(G, C, K)
        /\ FunctionsCovered(G, acts[m].depth)
    <3>1. \A h \in 1 .. Len(K) : K[h].a < Len(acts)
      BY <2>3 DEF m
    <3> QED
      BY <1>3, <1>5, <2>4, <2>6, <2>7, <2>8, <3>1, PopEntry DEF m
  <2>10. DepthOK(G, acts[m].depth)
    <3>1. Len(G) > 0 => n \in 2 .. Len(frames) /\ n - 1 = Len(G) /\ Len(G) \in 1 .. Len(G)
      BY <1>2 DEF n
    <3>2. Len(G) > 0 => frames[Len(G)].live <= acts[m].depth
      BY <3>1, <1>4, <2>4, <2>8 DEF RecordsOK, EntryCoversBelow, m
    <3>3. Len(G) > 0 => G[Len(G)] = frames[Len(G)]
      BY <3>1, <1>2
    <3> QED
      BY <2>9, <3>2, <3>3 DEF DepthOK, TopCovered
  <2>11. BudgetTypeOK'
    <3>1. stackDepth' \in Depths
      BY <2>1, <2>2 DEF Entries
    <3> QED
      BY <1>1, <1>2, <2>1, <2>2, <2>3, <3>1 DEF BudgetTypeOK
  <2>12. HandsOff => Exact(G, C, K, acts[m].depth)
    <3>1. SUFFICES ASSUME HandsOff PROVE Exact(G, C, K, acts[m].depth)
      OBVIOUS
    <3>2. Exact(frames, acts, holds, stackDepth)
      BY <3>1 DEF BudgetInv
    <3>3. Shrunk(frames, G)
      BY <1>2 DEF Shrunk, n
    <3>4. \A k \in 1 .. Len(C) : frames[Len(frames)].token # C[k].token
      <4>1. \A k, l \in 1 .. m : acts[k].token = acts[l].token => k = l
        BY <1>4 DEF EntriesOK, TokensDiffer, m
      <4> QED
        BY <4>1, <2>2, <2>4, <2>8 DEF n
    <3>5. \A h \in 1 .. Len(K) : K[h].a <= Len(C)
      BY <2>2, <2>3, <2>7 DEF TypedHolds
    <3>6. \A h \in 1 .. Len(holds), j \in 1 .. Len(G) :
             h > Len(K) /\ holds[h].a > 0 /\ frames[j].token = acts[holds[h].a].token => j = Len(G)
      <4>1. \A h \in 1 .. Len(holds) : h > Len(K) => holds[h].a = m
        BY <1>3, <1>4, <2>2, <2>3 DEF TypedHolds, HoldsOK, HoldsOfActivations, m
      <4> QED
        BY <4>1, <1>2, <2>8
    <3>7. \A h \in 1 .. Len(K), j \in 1 .. Len(G) :
             K[h].a > 0 /\ frames[j].token = acts[K[h].a].token /\ ~G[j].leaked => j < Len(G)
      <4>1. SUFFICES ASSUME NEW h \in 1 .. Len(K), NEW j \in 1 .. Len(G), K[h].a > 0,
                            frames[j].token = acts[K[h].a].token, ~G[j].leaked
                     PROVE  j < Len(G)
        OBVIOUS
      <4>2. h \in 1 .. Len(holds) /\ K[h] = holds[h] /\ j \in 1 .. Len(frames) /\ G[j] = frames[j]
        BY <1>2, <2>3, <2>5 DEF n
      <4>3. j < Len(frames) /\ frames[j + 1].kind = "spread"
        BY <4>1, <4>2, <3>2 DEF Exact, HoldIsOfSpread
      <4>4. j + 1 # n
        BY <4>3, <1>2
      <4> QED
        BY <4>3, <4>4, <1>2 DEF n
    <3>8. Clear(G, Len(G)) => acts[m].depth = LiveAt(G, Len(G))
      <4>1. SUFFICES ASSUME Clear(G, Len(G)) PROVE acts[m].depth = LiveAt(G, Len(G))
        OBVIOUS
      <4>2. Clear(frames, n - 1) /\ LiveAt(G, Len(G)) = LiveAt(frames, n - 1)
        BY <4>1, <1>2 DEF Clear, LiveAt
      <4> QED
        BY <4>2, <1>2, <2>4, <2>8, <3>2 DEF Exact, EntryExact, n, m
    <3> QED
      BY <1>2, <1>3, <1>4, <2>4, <2>5, <3>2, <3>3, <3>4, <3>5, <3>6, <3>7, <3>8, LeaveExact
  <2>13. HandsOff' => HandsOff
    BY DEF HandsOff
  <2>14. Covered(G, C, K, byHand, acts[m].depth)
    BY <1>5, <2>9, <2>10 DEF Covered
  <2> QED
    BY <2>1, <2>2, <2>11, <2>12, <2>13, <2>14 DEF BudgetInv
<1> QED
  BY <1>6, <1>7

\* An apply returns or throws.
LEMMA StepLeaveApply ==
  ASSUME BudgetInv, frames # <<>>, Last1(frames).kind = "apply",
         stackDepth' = Last1(frames).p, applyAct' = Last1(frames).q,
         frames' = Front1(frames), UNCHANGED <<acts, holds, faulted, byHand, handsLeft>>
  PROVE  BudgetInv'
<1> DEFINE n == Len(frames)
           G == Front1(frames)
<1>1. BudgetTypeOK /\ Covered(frames, acts, holds, byHand, stackDepth)
  BY DEF BudgetInv
<1>2. /\ G \in Seq(Frames) /\ Popped(frames, G) /\ Len(G) \in Nat /\ n \in Nat /\ n \in 1 .. n
      /\ Last1(frames) = frames[n] /\ Len(G) = n - 1 /\ frames[n].kind = "apply" /\ frames[n] \in Frames
      /\ \A j \in 1 .. Len(G) : G[j] = frames[j] /\ j \in 1 .. n
  BY <1>1, PoppedFrames
<1>3. n \in 2 .. n /\ n - 1 \in 1 .. n /\ Len(G) \in 1 .. Len(G)
  BY <1>2, BelowNative
<1>4. TypedFrames(frames) /\ TypedEntries(acts) /\ TypedHolds(holds)
  BY <1>1, Typed
<1>5. /\ FramesOK(frames) /\ EntriesOK(frames, acts, byHand) /\ HoldsOK(acts, holds)
      /\ RecordsOK(frames, acts, holds)
  BY <1>1 DEF Covered
<1> HIDE DEF n, G
<1>6. FramesOK(G) /\ EntriesOK(G, acts, byHand) /\ RecordsOK(G, acts, holds)
  BY <1>2, <1>4, <1>5, PopFrame DEF n
<1>7. DepthOK(G, frames[n].p)
  <2>1. frames[n - 1].live <= frames[n].p
    BY <1>2, <1>3, <1>5 DEF RecordsOK, ApplyCovers, n
  <2>2. \A j \in 1 .. Len(G) : j = n - 1 \/ j < n - 1
    BY <1>2
  <2>3. \A j \in 1 .. Len(G) : frames[j].live <= frames[n - 1].live
    <3>1. \A i, j \in 1 .. n : i < j => frames[i].live <= frames[j].live
      BY <1>5 DEF FramesOK, LiveGrows, n
    <3>2. frames[n - 1].live \in Nat
      BY <1>3, <1>4 DEF TypedFrames, n
    <3> QED
      BY <1>2, <1>3, <2>2, <3>1, <3>2
  <2>4. \A j \in 1 .. Len(G) : frames[j].live \in Nat /\ frames[n - 1].live \in Nat /\ frames[n].p \in Nat
    BY <1>2, <1>3, <1>4 DEF TypedFrames, n
  <2>5. \A j \in 1 .. Len(G) : G[j].live <= frames[n].p
    BY <1>2, <2>1, <2>3, <2>4
  <2> QED
    BY <1>3, <2>5 DEF DepthOK, FunctionsCovered, TopCovered
<1>8. BudgetTypeOK'
  <2>1. frames[n].p \in Depths /\ frames[n].q \in Int
    BY <1>2 DEF Frames
  <2> QED
    BY <1>1, <1>2, <2>1 DEF BudgetTypeOK, G
<1>9. HandsOff => Exact(G, acts, holds, frames[n].p)
  <2>1. SUFFICES ASSUME HandsOff PROVE Exact(G, acts, holds, frames[n].p)
    OBVIOUS
  <2>2. Exact(frames, acts, holds, stackDepth)
    BY <2>1 DEF BudgetInv
  <2>3. Shrunk(frames, G) /\ Cut(acts, acts) /\ Cut(holds, holds) /\ Len(acts) \in Nat /\ Len(holds) \in Nat
    BY <1>2, <1>3, <1>4 DEF Shrunk, Cut, TypedEntries, TypedHolds, n
  <2>4. \A k \in 1 .. Len(acts) : frames[Len(frames)].token # acts[k].token
    <3>1. frames[n].token = 0
      BY <1>2, <1>5 DEF EntriesOK, HasEntry, n
    <3> QED
      BY <1>4, <3>1 DEF TypedEntries, n
  <2>5. \A h \in 1 .. Len(holds) : holds[h].a <= Len(acts)
    BY <1>5 DEF HoldsOK, HoldsOfActivations
  <2>6. \A h \in 1 .. Len(holds), j \in 1 .. Len(G) :
           h > Len(holds) /\ holds[h].a > 0 /\ frames[j].token = acts[holds[h].a].token => j = Len(G)
    BY <2>3
  <2>7. \A h \in 1 .. Len(holds), j \in 1 .. Len(G) :
           holds[h].a > 0 /\ frames[j].token = acts[holds[h].a].token /\ ~G[j].leaked => j < Len(G)
    <3>1. SUFFICES ASSUME NEW h \in 1 .. Len(holds), NEW j \in 1 .. Len(G), holds[h].a > 0,
                          frames[j].token = acts[holds[h].a].token, ~G[j].leaked
                   PROVE  j < Len(G)
      OBVIOUS
    <3>2. j \in 1 .. Len(frames) /\ G[j] = frames[j]
      BY <1>2 DEF n
    <3>3. j < Len(frames) /\ frames[j + 1].kind = "spread"
      BY <3>1, <3>2, <2>2 DEF Exact, HoldIsOfSpread
    <3>4. j + 1 # n
      BY <3>3, <1>2
    <3> QED
      BY <3>3, <3>4, <1>2 DEF n
  <2>8. Clear(G, Len(G)) => frames[n].p = LiveAt(G, Len(G))
    <3>1. SUFFICES ASSUME Clear(G, Len(G)) PROVE frames[n].p = LiveAt(G, Len(G))
      OBVIOUS
    <3>2. Clear(frames, n - 1) /\ LiveAt(G, Len(G)) = LiveAt(frames, n - 1)
      BY <3>1, <1>2 DEF Clear, LiveAt
    <3> QED
      BY <3>2, <1>2, <2>2 DEF Exact, ApplyExact, n
  <2> QED
    BY <1>2, <1>4, <1>5, <2>2, <2>3, <2>4, <2>5, <2>6, <2>7, <2>8, LeaveExact
<1>10. HandsOff' => HandsOff
  BY DEF HandsOff
<1>11. Covered(G, acts, holds, byHand, frames[n].p)
  BY <1>5, <1>6, <1>7 DEF Covered
<1> QED
  BY <1>2, <1>8, <1>9, <1>10, <1>11 DEF BudgetInv, G

\* A spread call returns and gives its hold back.
LEMMA StepReturnSpread ==
  ASSUME BudgetInv, frames # <<>>, Last1(frames).kind = "spread",
         stackDepth' = DepthReleased(Last1(frames).id), holds' = HoldsReleased(Last1(frames).id),
         frames' = Front1(frames), UNCHANGED <<acts, applyAct, faulted, byHand, handsLeft>>
  PROVE  BudgetInv'
<1> DEFINE n == Len(frames)
           G == Front1(frames)
           K == HoldsReleased(Last1(frames).id)
           D == DepthReleased(Last1(frames).id)
           m == Len(acts)
<1>1. BudgetTypeOK /\ Covered(frames, acts, holds, byHand, stackDepth)
  BY DEF BudgetInv
<1>2. /\ G \in Seq(Frames) /\ Popped(frames, G) /\ Len(G) \in Nat /\ n \in Nat /\ n \in 1 .. n
      /\ Last1(frames) = frames[n] /\ Len(G) = n - 1 /\ frames[n].kind = "spread"
      /\ \A j \in 1 .. Len(G) : G[j] = frames[j] /\ j \in 1 .. n
  BY <1>1, PoppedFrames
<1>3. n \in 2 .. n /\ n - 1 \in 1 .. n /\ Len(G) \in 1 .. Len(G) /\ frames[n - 1].kind = "fn"
  BY <1>2, BelowNative
<1>4. TypedFrames(frames) /\ TypedEntries(acts) /\ TypedHolds(holds) /\ Len(holds) \in Nat /\ m \in Nat
  BY <1>1, Typed DEF TypedHolds, TypedEntries
<1>5. /\ FramesOK(frames) /\ EntriesOK(frames, acts, byHand) /\ HoldsOK(acts, holds)
      /\ RecordsOK(frames, acts, holds)
  BY <1>1 DEF Covered
<1>6. /\ K \in Seq(Holdings) /\ Len(K) \in Nat /\ Cut(holds, K)
      /\ \A h \in 1 .. Len(holds) : h > Len(K) => holds[h].a = m
      /\ Len(K) = Len(holds) => D = stackDepth
      /\ D \in Depths /\ FunctionsCovered(frames, D)
  BY <1>1, Released
<1>7. ~(Len(holds) > 0 /\ holds[Len(holds)].i = frames[n].id /\ holds[Len(holds)].a = m)
        \/ (Len(K) = Len(holds) - 1 /\ D = holds[Len(holds)].p)
  <2>1. SUFFICES ASSUME Len(holds) > 0, holds[Len(holds)].i = frames[n].id, holds[Len(holds)].a = m
                 PROVE  Len(K) = Len(holds) - 1 /\ D = holds[Len(holds)].p
    OBVIOUS
  <2>2. holds # <<>>
    BY <2>1, <1>1, EmptySeq DEF BudgetTypeOK
  <2>3. Releases(Last1(frames).id)
    BY <2>1, <2>2, <1>2 DEF Releases, ActN, Last1
  <2> QED
    BY <2>3, <1>1, Released DEF DepthReleased, Last1
<1> HIDE DEF n, G, K, D, m
<1>8. FramesOK(G) /\ EntriesOK(G, acts, byHand) /\ RecordsOK(G, acts, holds)
  BY <1>2, <1>4, <1>5, PopFrame DEF n
<1>9. HoldsOK(acts, K) /\ RecordsOK(G, acts, K)
  BY <1>4, <1>5, <1>6, <1>8, CutHolds
<1>10. DepthOK(G, D)
  <2>1. FunctionsCovered(G, D)
    BY <1>2, <1>6 DEF FunctionsCovered, n
  <2>2. G[Len(G)].kind = "fn"
    BY <1>2, <1>3
  <2> QED
    BY <1>3, <2>1, <2>2 DEF DepthOK, FunctionsCovered, TopCovered
<1>11. BudgetTypeOK'
  BY <1>1, <1>2, <1>6 DEF BudgetTypeOK, G, K, D
<1>12. HandsOff => Exact(G, acts, K, D)
  <2>1. SUFFICES ASSUME HandsOff PROVE Exact(G, acts, K, D)
    OBVIOUS
  <2>2. Exact(frames, acts, holds, stackDepth)
    BY <2>1 DEF BudgetInv
  <2>3. Shrunk(frames, G) /\ Cut(acts, acts)
    BY <1>2, <1>3, <1>4 DEF Shrunk, Cut, n, m
  <2>4. /\ m > 0 /\ frames[n - 1].token = acts[m].token
        /\ \A j \in 1 .. n : frames[j].token = acts[m].token => j = n - 1
        /\ \A k \in 1 .. m : frames[n - 1].token = acts[k].token => k = m
    <3>1. \A j \in 1 .. n : j > n - 1 => frames[j].kind # "fn"
      BY <1>2
    <3>2. EntryHasFrame(frames, acts)
      BY <2>2 DEF Exact
    <3> QED
      BY <1>3, <1>4, <1>5, <3>1, <3>2, InnermostEntry, SMTT(30) DEF n, m
  <2>5. \A h \in 1 .. Len(holds) : holds[h].a \in Nat /\ holds[h].a <= m
    BY <1>4, <1>5 DEF TypedHolds, HoldsOK, HoldsOfActivations, m
  <2>6. ~frames[n - 1].leaked =>
          /\ Len(holds) > 0 /\ Len(K) = Len(holds) - 1 /\ D = holds[Len(holds)].p
          /\ holds[Len(holds)].a = m
          /\ \A h \in 1 .. Len(holds) : holds[h].a = m => h = Len(holds)
    <3>1. SUFFICES ASSUME ~frames[n - 1].leaked
                   PROVE  /\ Len(holds) > 0 /\ Len(K) = Len(holds) - 1 /\ D = holds[Len(holds)].p
                          /\ holds[Len(holds)].a = m
                          /\ \A h \in 1 .. Len(holds) : holds[h].a = m => h = Len(holds)
      OBVIOUS
    <3>2. PICK h \in 1 .. Len(holds) : holds[h].a > 0 /\ frames[n - 1].token = acts[holds[h].a].token
      BY <3>1, <1>2, <1>3, <2>2 DEF Exact, SpreadHasHold, n
    <3>3. holds[h].a = m
      <4>1. holds[h].a \in 1 .. m
        BY <3>2, <2>5, <1>4
      <4> QED
        BY <3>2, <4>1, <2>4
    <3>4. Len(holds) > 0 /\ Len(holds) \in 1 .. Len(holds) /\ holds[Len(holds)].a >= holds[h].a
      <4>1. Len(holds) > 0 /\ Len(holds) \in 1 .. Len(holds)
        BY <3>2, <1>4
      <4>2. h < Len(holds) \/ h = Len(holds)
        BY <3>2, <1>4
      <4> QED
        BY <4>1, <4>2, <2>5, <1>5 DEF HoldsOK, HoldsInOrder
    <3>5. holds[Len(holds)].a = m
      BY <3>3, <3>4, <2>5, <1>4
    <3>6. \A g \in 1 .. Len(holds) : holds[g].a = m => g = Len(holds)
      BY <3>1, <3>4, <3>5, <1>3, <2>2, <2>4 DEF Exact, HoldIsSingle, n
    <3>7. holds[Len(holds)].i = frames[n].id
      <4>1. frames[(n - 1) + 1].id = holds[Len(holds)].i
        BY <3>1, <3>4, <3>5, <1>3, <2>2, <2>4 DEF Exact, HoldIsOfSpread, n
      <4>2. (n - 1) + 1 = n
        BY <1>2
      <4> QED
        BY <4>1, <4>2
    <3> QED
      BY <3>4, <3>5, <3>6, <3>7, <1>7
  <2>7. \A k \in 1 .. Len(acts) : frames[Len(frames)].token # acts[k].token
    <3>1. frames[n].token = 0
      BY <1>2, <1>5 DEF EntriesOK, HasEntry, n
    <3> QED
      BY <1>4, <3>1 DEF TypedEntries, n
  <2>8. \A h \in 1 .. Len(K) : K[h] = holds[h] /\ h \in 1 .. Len(holds)
    BY <1>4, <1>6 DEF Cut
  <2>9. \A h \in 1 .. Len(K) : K[h].a <= Len(acts)
    BY <2>5, <2>8 DEF m
  <2>10. \A h \in 1 .. Len(holds), j \in 1 .. Len(G) :
            h > Len(K) /\ holds[h].a > 0 /\ frames[j].token = acts[holds[h].a].token => j = Len(G)
    BY <1>2, <1>6, <2>4
  <2>11. \A h \in 1 .. Len(K), j \in 1 .. Len(G) :
            K[h].a > 0 /\ frames[j].token = acts[K[h].a].token /\ ~G[j].leaked => j < Len(G)
    <3>1. SUFFICES ASSUME NEW h \in 1 .. Len(K), NEW j \in 1 .. Len(G), K[h].a > 0,
                          frames[j].token = acts[K[h].a].token, ~G[j].leaked, ~(j < Len(G))
                   PROVE  FALSE
      OBVIOUS
    <3>2. j = n - 1 /\ ~frames[n - 1].leaked
      BY <3>1, <1>2
    <3>3. K[h] = holds[h] /\ h \in 1 .. Len(holds) /\ holds[h].a \in 1 .. m
      BY <3>1, <2>5, <2>8, <1>4
    <3>4. holds[h].a = m
      BY <3>1, <3>2, <3>3, <2>4
    <3>5. h = Len(holds) /\ Len(K) = Len(holds) - 1
      BY <3>2, <3>3, <3>4, <2>6
    <3> QED
      BY <3>5, <1>4
  <2>12. Clear(G, Len(G)) => D = LiveAt(G, Len(G))
    <3>1. SUFFICES ASSUME Clear(G, Len(G)) PROVE D = LiveAt(G, Len(G))
      OBVIOUS
    <3>2. Clear(frames, n - 1) /\ LiveAt(G, Len(G)) = frames[n - 1].live /\ ~frames[n - 1].leaked
      BY <3>1, <1>2, <1>3 DEF Clear, LiveAt
    <3>3. Len(holds) \in 1 .. Len(holds) /\ holds[Len(holds)].a = m /\ D = holds[Len(holds)].p
      BY <3>2, <2>6, <1>4
    <3> QED
      BY <3>2, <3>3, <1>3, <2>2, <2>4 DEF Exact, HoldIsOfSpread, n
  <2>13. Len(acts) \in Nat
    BY <1>4 DEF m
  <2> QED
    BY <1>2, <1>4, <1>5, <1>6, <2>2, <2>3, <2>7, <2>9, <2>10, <2>11, <2>12, <2>13, LeaveExact
<1>13. HandsOff' => HandsOff
  BY DEF HandsOff
<1>14. Covered(G, acts, K, byHand, D)
  BY <1>8, <1>9, <1>10 DEF Covered
<1> QED
  BY <1>11, <1>12, <1>13, <1>14 DEF BudgetInv, G, K, D

\* A spread call throws: its hold stays behind, and the function that made it is
\* marked.
LEMMA StepUnwindSpread ==
  ASSUME BudgetInv, frames # <<>>, Last1(frames).kind = "spread",
         frames' = [Front1(frames) EXCEPT ![Len(frames) - 1].leaked = TRUE],
         UNCHANGED <<stackDepth, acts, holds, applyAct, faulted, byHand, handsLeft>>
  PROVE  BudgetInv'
<1> DEFINE n == Len(frames)
           P == Front1(frames)
           G == [P EXCEPT ![n - 1].leaked = TRUE]
<1>1. BudgetTypeOK /\ Covered(frames, acts, holds, byHand, stackDepth)
  BY DEF BudgetInv
<1>2. /\ P \in Seq(Frames) /\ Popped(frames, P) /\ Len(P) \in Nat /\ n \in Nat /\ n \in 1 .. n
      /\ Last1(frames) = frames[n] /\ Len(P) = n - 1 /\ frames[n].kind = "spread"
      /\ \A j \in 1 .. Len(P) : P[j] = frames[j] /\ j \in 1 .. n
  BY <1>1, PoppedFrames
<1>3. n \in 2 .. n /\ n - 1 \in 1 .. n /\ Len(P) \in 1 .. Len(P) /\ frames[n - 1].kind = "fn"
  BY <1>2, BelowNative
<1>4. TypedFrames(frames) /\ TypedEntries(acts) /\ TypedHolds(holds) /\ Len(holds) \in Nat /\ Len(acts) \in Nat
  BY <1>1, Typed DEF TypedHolds, TypedEntries
<1>5. /\ FramesOK(frames) /\ EntriesOK(frames, acts, byHand) /\ HoldsOK(acts, holds)
      /\ RecordsOK(frames, acts, holds) /\ DepthOK(frames, stackDepth)
  BY <1>1 DEF Covered
<1>6. frames' = G
  OBVIOUS
<1> HIDE DEF n, P
<1>7. \A j \in 1 .. Len(P) : P[j] \in Frames
  BY <1>2, ElementOfSeq
<1>8. /\ G \in Seq(Frames) /\ Len(G) = n - 1
      /\ \A j \in 1 .. Len(P) : j # n - 1 => G[j] = P[j]
      /\ G[n - 1] = [P[n - 1] EXCEPT !.leaked = TRUE]
  <2>1. DOMAIN P = 1 .. Len(P)
    BY <1>2, LenProperties
  <2>2. G = [j \in 1 .. Len(P) |-> IF j = n - 1 THEN [P[n - 1] EXCEPT !.leaked = TRUE] ELSE P[j]]
    BY <2>1, <1>2
  <2>3. [P[n - 1] EXCEPT !.leaked = TRUE] \in Frames
    BY <1>2, <1>3, <1>7 DEF Frames
  <2>4. \A j \in 1 .. Len(P) : (IF j = n - 1 THEN [P[n - 1] EXCEPT !.leaked = TRUE] ELSE P[j]) \in Frames
    BY <2>3, <1>7
  <2> HIDE DEF G
  <2>5. G \in [1 .. Len(P) -> Frames]
    BY <2>2, <2>4
  <2>6. G \in Seq(Frames)
    BY <2>5, <1>2, IsASeq
  <2>7. Len(G) = Len(P)
    BY <2>5, <2>6, <1>2, LenProperties
  <2> QED
    BY <2>2, <2>6, <2>7, <1>2, <1>3
<1> HIDE DEF G
<1>9. /\ G[n - 1].leaked /\ Len(G) \in Nat
      /\ \A j \in 1 .. Len(G) :
           /\ G[j].kind = frames[j].kind /\ G[j].live = frames[j].live /\ G[j].token = frames[j].token
           /\ G[j].p = frames[j].p /\ G[j].id = frames[j].id /\ G[j].units = frames[j].units
           /\ frames[j].leaked => G[j].leaked
  <2>1. \A j \in 1 .. Len(P) : P[j] \in Frames /\ P[j] = frames[j]
    BY <1>2, <1>7
  <2>2. /\ G[n - 1].kind = P[n - 1].kind /\ G[n - 1].live = P[n - 1].live /\ G[n - 1].token = P[n - 1].token
        /\ G[n - 1].p = P[n - 1].p /\ G[n - 1].id = P[n - 1].id /\ G[n - 1].units = P[n - 1].units
        /\ G[n - 1].leaked
    BY <1>2, <1>3, <1>7, <1>8 DEF Frames
  <2>3. Len(G) = Len(P)
    BY <1>2, <1>8
  <2>4. ASSUME NEW j \in 1 .. Len(G)
        PROVE  /\ G[j].kind = frames[j].kind /\ G[j].live = frames[j].live /\ G[j].token = frames[j].token
               /\ G[j].p = frames[j].p /\ G[j].id = frames[j].id /\ G[j].units = frames[j].units
               /\ frames[j].leaked => G[j].leaked
    <3>1. CASE j = n - 1
      BY <3>1, <2>1, <2>2, <2>3
    <3>2. CASE j # n - 1
      BY <3>2, <2>1, <2>3, <1>8
    <3> QED
      BY <3>1, <3>2
  <2> QED
    BY <2>2, <2>4, <1>2, <1>8
<1>10. FramesOK(G) /\ EntriesOK(G, acts, byHand) /\ RecordsOK(G, acts, holds)
  <2>1. FramesOK(P) /\ EntriesOK(P, acts, byHand) /\ RecordsOK(P, acts, holds)
    BY <1>2, <1>4, <1>5, PopFrame DEF n
  <2>2. TypedFrames(P)
    BY <1>2, <1>4 DEF TypedFrames, n
  <2>3. Lowered(P, G, Len(P))
    BY <1>2, <1>3, <1>8, <1>9 DEF Lowered
  <2> QED
    BY <1>4, <2>1, <2>2, <2>3, Lower
<1>11. DepthOK(G, stackDepth)
  <2>1. FunctionsCovered(frames, stackDepth)
    BY <1>5 DEF DepthOK
  <2>2. FunctionsCovered(G, stackDepth)
    BY <2>1, <1>2, <1>8, <1>9 DEF FunctionsCovered, n
  <2>3. Len(G) \in 1 .. Len(G) /\ G[Len(G)].kind = "fn"
    BY <1>2, <1>3, <1>8, <1>9
  <2> QED
    BY <2>2, <2>3 DEF DepthOK, FunctionsCovered, TopCovered
<1>12. BudgetTypeOK'
  BY <1>1, <1>6, <1>8 DEF BudgetTypeOK
<1>13. HandsOff => Exact(G, acts, holds, stackDepth)
  <2>1. SUFFICES ASSUME HandsOff PROVE Exact(G, acts, holds, stackDepth)
    OBVIOUS
  <2>2. Exact(frames, acts, holds, stackDepth)
    BY <2>1 DEF BudgetInv
  <2>3. Shrunk(frames, G)
    BY <1>2, <1>3, <1>8, <1>9 DEF Shrunk, n
  <2>4. Cut(acts, acts) /\ Cut(holds, holds)
    BY <1>4 DEF Cut
  <2>5. \A k \in 1 .. Len(acts) : frames[Len(frames)].token # acts[k].token
    <3>1. frames[n].token = 0
      BY <1>2, <1>5 DEF EntriesOK, HasEntry, n
    <3> QED
      BY <1>4, <3>1 DEF TypedEntries, n
  <2>6. \A h \in 1 .. Len(holds) : holds[h].a <= Len(acts)
    BY <1>5 DEF HoldsOK, HoldsOfActivations
  <2>7. \A h \in 1 .. Len(holds), j \in 1 .. Len(G) :
           h > Len(holds) /\ holds[h].a > 0 /\ frames[j].token = acts[holds[h].a].token => j = Len(G)
    BY <1>4
  <2>8. \A h \in 1 .. Len(holds), j \in 1 .. Len(G) :
           holds[h].a > 0 /\ frames[j].token = acts[holds[h].a].token /\ ~G[j].leaked => j < Len(G)
    <3>1. Len(G) = n - 1 /\ G[Len(G)].leaked /\ Len(G) \in Nat
      BY <1>2, <1>8, <1>9
    <3>2. \A j \in 1 .. Len(G) : ~G[j].leaked => j < Len(G)
      BY <3>1
    <3> QED
      BY <3>2
  <2>9. Clear(G, Len(G)) => stackDepth = LiveAt(G, Len(G))
    BY <1>2, <1>3, <1>8, <1>9 DEF Clear
  <2> QED
    BY <1>4, <1>5, <1>9, <2>2, <2>3, <2>4, <2>5, <2>6, <2>7, <2>8, <2>9, LeaveExact
<1>14. HandsOff' => HandsOff
  BY DEF HandsOff
<1>15. Covered(G, acts, holds, byHand, stackDepth)
  BY <1>5, <1>10, <1>11 DEF Covered
<1> QED
  BY <1>6, <1>12, <1>13, <1>14, <1>15 DEF BudgetInv

\* There is a function on the stack, so there is an innermost one.
LEMMA TheInnermost ==
  ASSUME BudgetTypeOK, BottomIsFunction(frames), frames # <<>>
  PROVE  /\ InnermostFunction \in 1 .. Len(frames) /\ frames[InnermostFunction].kind = "fn"
         /\ \A j \in 1 .. Len(frames) : j > InnermostFunction => frames[j].kind # "fn"
<1> DEFINE above == {n \in 0 .. Len(frames) : \A k \in n + 1 .. Len(frames) : frames[k].kind # "fn"}
           n == CHOOSE x \in above : \A y \in above : x <= y
<1>0. Len(frames) \in Nat /\ Len(frames) > 0 /\ frames[1].kind = "fn"
  BY PoppedFrames DEF BottomIsFunction
<1>1. Len(frames) \in above /\ above \subseteq Nat
  BY <1>0
<1>2. n \in above /\ \A y \in above : n <= y
  BY <1>1, LeastNumber
<1>3. InnermostFunction = n
  BY DEF InnermostFunction
<1> HIDE DEF n
<1>4. n \in 0 .. Len(frames) /\ \A k \in n + 1 .. Len(frames) : frames[k].kind # "fn"
  BY <1>2
<1>5. n > 0
  <2>1. n = 0 => frames[1].kind # "fn"
    BY <1>0, <1>4
  <2> QED
    BY <2>1, <1>0, <1>4
<1>6. frames[n].kind = "fn"
  <2> SUFFICES ASSUME frames[n].kind # "fn" PROVE FALSE
    OBVIOUS
  <2>1. \A k \in (n - 1) + 1 .. Len(frames) : frames[k].kind # "fn"
    BY <1>0, <1>4
  <2>2. n - 1 \in above
    BY <1>0, <1>4, <1>5, <2>1
  <2>3. n <= n - 1
    BY <1>2, <2>2
  <2> QED
    BY <1>0, <1>4, <2>3
<1> HIDE DEF above
<1> QED
  BY <1>0, <1>3, <1>4, <1>5, <1>6

\* A call of a hook by hand: what is left to show of a step that makes one.
LEMMA StepByHand ==
  ASSUME BudgetInv, ByHand, HookUsed,
         stackDepth' \in Depths, acts' \in Seq(Entries), holds' \in Seq(Holdings),
         byHand' \in SUBSET Tokens, IsFiniteSet(byHand'), UNCHANGED <<applyAct, faulted>>,
         EntriesOK(frames, acts', byHand'), HoldsOK(acts', holds'), RecordsOK(frames, acts', holds'),
         FunctionsCovered(frames, stackDepth')
  PROVE  BudgetInv'
<1> DEFINE m == Len(frames)
           n == InnermostFunction
           low(j) == [frames[j] EXCEPT !.live = frames[n].live, !.hook = TRUE]
<1>1. BudgetTypeOK /\ FramesOK(frames) /\ TypedFrames(frames) /\ frames # <<>>
  BY Typed DEF BudgetInv, Covered, ByHand
<1>2. /\ m \in Nat /\ m > 0 /\ m \in 1 .. m /\ \A j \in 1 .. m : frames[j] \in Frames
  BY <1>1, PoppedFrames, Typed
<1>3. n \in 1 .. m /\ frames[n].kind = "fn" /\ \A j \in 1 .. m : j > n => frames[j].kind # "fn"
  BY <1>1, TheInnermost DEF FramesOK
<1>4. frames' = [j \in 1 .. m |-> IF j <= n THEN frames[j] ELSE low(j)]
  <2>1. DOMAIN frames = 1 .. m
    BY <1>1, LenProperties DEF BudgetTypeOK
  <2> QED
    BY <2>1 DEF HookUsed
<1>5. \A j \in 1 .. m :
        /\ low(j) \in Frames /\ low(j).kind = frames[j].kind /\ low(j).token = frames[j].token
        /\ low(j).p = frames[j].p /\ low(j).units = frames[j].units /\ low(j).live = frames[n].live
  BY <1>2, <1>3 DEF Frames
<1> HIDE DEF n, low
<1>6. frames' \in Seq(Frames) /\ Len(frames') = m
  <2>1. frames' \in [1 .. m -> Frames]
    BY <1>2, <1>4, <1>5
  <2>2. frames' \in Seq(Frames)
    BY <2>1, <1>2, IsASeq
  <2> QED
    BY <2>1, <2>2, <1>2, LenProperties
<1> HIDE DEF m
<1>7. Lowered(frames, frames', n)
  <2>1. \A j \in 1 .. m : frames'[j] = IF j <= n THEN frames[j] ELSE low(j)
    BY <1>4
  <2>2. ASSUME NEW j \in 1 .. m
        PROVE  /\ frames'[j].kind = frames[j].kind /\ frames'[j].token = frames[j].token
               /\ frames'[j].p = frames[j].p /\ frames'[j].units = frames[j].units
               /\ frames'[j].live = IF j <= n THEN frames[j].live ELSE frames[n].live
    <3>1. CASE j <= n
      BY <3>1, <2>1
    <3>2. CASE ~(j <= n)
      BY <3>2, <2>1, <1>5
    <3> QED
      BY <3>1, <3>2
  <2> QED
    BY <2>2, <1>3, <1>6 DEF Lowered, m
<1>8. FramesOK(frames') /\ EntriesOK(frames', acts', byHand') /\ RecordsOK(frames', acts', holds')
  <2>1. TypedEntries(acts') /\ TypedHolds(holds')
    <3>1. /\ Len(acts') \in Nat /\ Len(holds') \in Nat
          /\ \A k \in 1 .. Len(acts') : acts'[k] \in Entries
          /\ \A h \in 1 .. Len(holds') : holds'[h] \in Holdings
      BY ElementOfSeq, LenProperties
    <3> QED
      BY <3>1 DEF TypedEntries, TypedHolds, Entries, Holdings, Depths, Tokens
  <2> QED
    BY <1>1, <1>7, <2>1, Lower
<1>9. DepthOK(frames', stackDepth')
  <2>1. FunctionsCovered(frames', stackDepth')
    <3>1. SUFFICES ASSUME NEW j \in 1 .. m, frames[j].kind = "fn" PROVE frames'[j].live <= stackDepth'
      BY <1>6, <1>7 DEF FunctionsCovered, Lowered, m
    <3>2. j <= n
      BY <3>1, <1>2, <1>3
    <3>3. frames'[j].live = frames[j].live
      BY <3>2, <1>7 DEF Lowered, m
    <3> QED
      BY <3>1, <3>3 DEF FunctionsCovered, m
  <2>2. frames'[m].live = frames[n].live
    <3>1. m <= n => m = n
      BY <1>2, <1>3
    <3> QED
      BY <3>1, <1>2, <1>7 DEF Lowered, m
  <2>3. frames[n].live <= stackDepth'
    BY <1>3 DEF FunctionsCovered, m
  <2> QED
    BY <2>1, <2>2, <2>3, <1>6 DEF DepthOK, TopCovered
<1>10. BudgetTypeOK' /\ ~HandsOff'
  <2>1. handsLeft' \in 0 .. MaxByHand /\ handsLeft' # MaxByHand
    <3>1. handsLeft \in 0 .. MaxByHand /\ handsLeft > 0
      BY <1>1 DEF ByHand, BudgetTypeOK
    <3>2. handsLeft - 1 \in 0 .. MaxByHand /\ handsLeft - 1 # MaxByHand
      BY <3>1, HandAssumption
    <3>3. handsLeft' = handsLeft - 1
      BY DEF HookUsed
    <3> QED
      BY <3>2, <3>3
  <2> QED
    BY <2>1, <1>1, <1>6 DEF BudgetTypeOK, HandsOff
<1> QED
  BY <1>8, <1>9, <1>10 DEF BudgetInv, Covered

\* The contract calls __nstDepthEnter.
LEMMA StepHandEnter ==
  ASSUME BudgetInv, NEW w \in Nat, HandEnter(w), Fits(w)
  PROVE  BudgetInv'
<1> DEFINE e == [depth |-> stackDepth, token |-> FreshToken]
<1>1. /\ BudgetTypeOK /\ EntriesOK(frames, acts, byHand) /\ HoldsOK(acts, holds)
      /\ RecordsOK(frames, acts, holds) /\ FunctionsCovered(frames, stackDepth)
  BY DEF BudgetInv, Covered, DepthOK
<1>2. /\ FreshToken \in Tokens /\ FreshToken \notin byHand
      /\ \A k \in 1 .. Len(acts) : acts[k].token # FreshToken
      /\ \A j \in 1 .. Len(frames) : frames[j].token # FreshToken
  BY <1>1, FreshTokenIsFresh
<1>3. /\ TypedFrames(frames) /\ TypedEntries(acts) /\ TypedHolds(holds) /\ stackDepth \in Nat
      /\ Len(acts) \in Nat
  BY <1>1, Typed DEF TypedEntries
<1>4. /\ acts' = Append(acts, e) /\ stackDepth' = stackDepth + w /\ byHand' = byHand \cup {FreshToken}
      /\ ByHand /\ HookUsed /\ UNCHANGED <<holds, applyAct, faulted>>
  BY DEF HandEnter, Enter
<1>5. e \in Entries /\ e.depth = stackDepth /\ e.token = FreshToken
  BY <1>1, <1>2 DEF Entries, BudgetTypeOK
<1> HIDE DEF e
<1>6. acts' \in Seq(Entries) /\ Pushed(acts, acts', e)
  BY <1>1, <1>3, <1>4, <1>5, AppendOf DEF BudgetTypeOK, Pushed
<1>7. EntriesOK(frames, acts', byHand') /\ HoldsOK(acts', holds) /\ RecordsOK(frames, acts', holds)
  <2>1. /\ e.token # 0 /\ FunctionsCovered(frames, e.depth)
        /\ \A k \in 1 .. Len(acts) : acts[k].token # e.token
        /\ \A j \in 1 .. Len(frames) : frames[j].token # e.token
    BY <1>1, <1>2, <1>5 DEF Tokens
  <2>2. EntriesOK(frames, acts', byHand \cup {e.token}) /\ HoldsOK(acts', holds) /\ RecordsOK(frames, acts', holds)
    BY <1>1, <1>3, <1>6, <2>1, PushHandEntry
  <2> QED
    BY <2>2, <1>4, <1>5
<1>8. stackDepth' \in Depths /\ FunctionsCovered(frames, stackDepth')
  <2>1. stackDepth' \in Depths
    BY <1>3, <1>4 DEF Depths
  <2> QED
    BY <2>1, <1>1, <1>3, <1>4 DEF FunctionsCovered, TypedFrames
<1>9. byHand' \in SUBSET Tokens /\ IsFiniteSet(byHand')
  BY <1>1, <1>2, <1>4, FS_AddElement DEF BudgetTypeOK
<1> QED
  BY <1>1, <1>4, <1>6, <1>7, <1>8, <1>9, StepByHand DEF BudgetTypeOK

\* The contract calls __nstDepthExit with a token it has: the entry that goes is
\* not that of a frame.
LEMMA StepHandExit ==
  ASSUME BudgetInv, NEW token \in byHand, HandExit(token)
  PROVE  BudgetInv'
<1> DEFINE C == Front1(acts)
           K == HoldsBelow
           m == Len(acts)
<1>1. /\ BudgetTypeOK /\ EntriesOK(frames, acts, byHand) /\ HoldsOK(acts, holds)
      /\ RecordsOK(frames, acts, holds) /\ FunctionsCovered(frames, stackDepth)
  BY DEF BudgetInv, Covered, DepthOK
<1>2. /\ TypedFrames(frames) /\ TypedEntries(acts) /\ TypedHolds(holds)
  BY <1>1, Typed
<1>3. ByHand /\ HookUsed /\ DepthExit(token) /\ UNCHANGED <<applyAct, faulted, byHand>>
  BY DEF HandExit
<1>4. CASE ~Unwinds(token)
  <2>1. UNCHANGED <<stackDepth, acts, holds>>
    BY <1>3, <1>4 DEF DepthExit
  <2> QED
    BY <1>1, <1>3, <2>1, StepByHand DEF BudgetTypeOK
<1>5. CASE Unwinds(token)
  <2>1. /\ acts # <<>> /\ Last1(acts).token = token
        /\ stackDepth' = Last1(acts).depth /\ acts' = C /\ holds' = K
    BY <1>3, <1>5 DEF DepthExit, Unwinds
  <2>2. /\ C \in Seq(Entries) /\ Len(C) = m - 1 /\ \A i \in 1 .. m - 1 : C[i] = acts[i]
        /\ m \in Nat /\ m > 0 /\ Last1(acts) = acts[m] /\ acts[m] \in Entries
    BY <1>1, <2>1, FrontOf DEF BudgetTypeOK
  <2>3. /\ K \in Seq(Holdings) /\ Len(K) \in 0 .. Len(holds)
        /\ \A h \in 1 .. Len(K) : K[h] = holds[h] /\ holds[h].a < m
    BY <1>1, HoldsBelowKeeps
  <2> HIDE DEF C, K, m
  <2>4. Popped(acts, C) /\ Len(C) \in Nat /\ m \in 1 .. m
    BY <2>2 DEF Popped, m
  <2>5. Len(holds) \in Nat /\ Len(K) \in Nat /\ Cut(holds, K)
    BY <1>2, <2>3 DEF TypedHolds, Cut
  <2>6. HoldsOK(acts, K) /\ RecordsOK(frames, acts, K)
    BY <1>1, <1>2, <2>5, CutHolds
  <2>7. TypedHolds(K)
    <3>1. \A h \in 1 .. Len(K) : h \in 1 .. Len(holds) /\ K[h] = holds[h]
      BY <2>3, <2>5
    <3> QED
      BY <1>2, <2>5, <3>1 DEF TypedHolds
  <2>8. \A j \in 1 .. Len(frames) : frames[j].token # acts[Len(acts)].token
    <3>1. token = acts[m].token /\ token # 0
      BY <1>1, <2>1, <2>2 DEF BudgetTypeOK, Tokens
    <3>2. \A j \in 1 .. Len(frames) : frames[j].token = 0 \/ frames[j].token \notin byHand
      BY <1>1 DEF EntriesOK, HasEntry
    <3> QED
      BY <3>1, <3>2 DEF m
  <2>9. \A h \in 1 .. Len(K) : K[h].a < Len(acts)
    BY <2>3 DEF m
  <2>10. /\ EntriesOK(frames, C, byHand) /\ HoldsOK(C, K) /\ RecordsOK(frames, C, K)
         /\ FunctionsCovered(frames, acts[Len(acts)].depth)
    BY <1>1, <1>2, <2>4, <2>6, <2>7, <2>8, <2>9, PopEntry
  <2>11. stackDepth' = acts[Len(acts)].depth /\ stackDepth' \in Depths
    BY <2>1, <2>2 DEF Entries, m
  <2> QED
    BY <1>1, <1>3, <2>1, <2>2, <2>3, <2>10, <2>11, StepByHand DEF BudgetTypeOK
<1> QED
  BY <1>4, <1>5

\* The contract calls __nstHold.
LEMMA StepHandHold ==
  ASSUME BudgetInv, NEW id \in Sites, NEW n \in ArgCounts, HandHold(id, n),
         ~(DepthReleased(id) + Units(n, CALL_UNITS) > NR_LIMIT)
  PROVE  BudgetInv'
<1> DEFINE u == Units(n, CALL_UNITS)
<1>1. BudgetTypeOK /\ EntriesOK(frames, acts, byHand)
  BY DEF BudgetInv, Covered
<1>2. u \in Nat
  BY UnitsNat, UnitsAssumption
<1>3. /\ ByHand /\ HookUsed /\ Hold(id, u)
      /\ UNCHANGED <<acts, applyAct, faulted, byHand>>
  BY DEF HandHold
<1>r. DepthReleased(id) + u <= NR_LIMIT
  <2>1. DepthReleased(id) \in Depths
    BY Released DEF BudgetInv
  <2> QED
    BY <1>2, <2>1, LimitAssumption DEF Depths
<1> HIDE DEF u
<1>4. /\ holds' \in Seq(Holdings) /\ stackDepth' \in Depths
      /\ HoldsOK(acts, holds') /\ RecordsOK(frames, acts, holds') /\ FunctionsCovered(frames, stackDepth')
  BY <1>2, <1>3, <1>r, NewHold
<1> QED
  BY <1>1, <1>3, <1>4, StepByHand DEF BudgetTypeOK

\* The contract calls __nstRelease.
LEMMA StepHandRelease ==
  ASSUME BudgetInv, NEW id \in Sites, HandRelease(id)
  PROVE  BudgetInv'
<1>1. /\ BudgetTypeOK /\ EntriesOK(frames, acts, byHand) /\ HoldsOK(acts, holds)
      /\ RecordsOK(frames, acts, holds) /\ Covered(frames, acts, holds, byHand, stackDepth)
  BY DEF BudgetInv, Covered
<1>2. /\ ByHand /\ HookUsed /\ stackDepth' = DepthReleased(id) /\ holds' = HoldsReleased(id)
      /\ UNCHANGED <<acts, applyAct, faulted, byHand>>
  BY DEF HandRelease
<1>3. /\ holds' \in Seq(Holdings) /\ Len(holds') \in Nat /\ Cut(holds, holds')
      /\ stackDepth' \in Depths /\ FunctionsCovered(frames, stackDepth')
  BY <1>1, <1>2, Released
<1>4. HoldsOK(acts, holds') /\ RecordsOK(frames, acts, holds')
  BY <1>1, <1>3, Typed, CutHolds
<1> QED
  BY <1>1, <1>2, <1>3, <1>4, StepByHand DEF BudgetTypeOK

\* A fault empties the stack.
LEMMA StepFault ==
  ASSUME BudgetInv, Fault
  PROVE  BudgetInv'
<1>1. /\ faulted' = TRUE /\ frames' = <<>>
      /\ UNCHANGED <<stackDepth, acts, holds, applyAct, byHand, handsLeft>>
  BY DEF Fault
<1>2. Len(frames') = 0 /\ frames' \in Seq(Frames)
  BY <1>1
<1>3. BudgetTypeOK' /\ ~HandsOff'
  BY <1>1, <1>2 DEF BudgetInv, BudgetTypeOK, HandsOff
<1>4. TokensDiffer(acts) /\ HoldsOK(acts, holds)
  BY DEF BudgetInv, Covered, EntriesOK
<1>5. FramesOK(frames')
  BY <1>2 DEF FramesOK, BottomIsFunction, SpreadInFunction, LiveInLimit, CopiesHoldNothing,
                     LiveGrows
<1>6. EntriesOK(frames', acts, byHand)
  BY <1>2, <1>4 DEF EntriesOK, HasEntry, EntriesInOrder
<1>7. DepthOK(frames', stackDepth)
  BY <1>2 DEF DepthOK, FunctionsCovered, TopCovered
<1>8. RecordsOK(frames', acts, holds)
  BY <1>2 DEF RecordsOK, ApplyCovers, EntryCoversBelow, EntryCovers, HoldCovers
<1> QED
  BY <1>1, <1>3, <1>4, <1>5, <1>6, <1>7, <1>8 DEF BudgetInv, Covered

\* A step that touches neither stack nor budget.
LEMMA StepQuiet ==
  ASSUME BudgetInv,
         UNCHANGED <<stackDepth, acts, holds, applyAct, faulted, frames, byHand, handsLeft>>
  PROVE  BudgetInv'
  BY DEF BudgetInv, BudgetTypeOK, HandsOff

\* Every step keeps the budget's invariant.
LEMMA BudgetStep ==
  ASSUME BudgetInv, [StackNext]_nstVars
  PROVE  BudgetInv'
<1>1. CASE UNCHANGED nstVars
  BY <1>1, StepQuiet DEF nstVars
<1>2. ASSUME NEW w \in Weights, EnterFunction(w) PROVE BudgetInv'
  <2>1. w \in Nat /\ ~faulted
    BY <1>2, WeightsAssumption DEF EnterFunction, Runs
  <2>2. CASE ~Fits(w)
    BY <1>2, <2>2, StepFault DEF EnterFunction
  <2>3. CASE Fits(w)
    BY <1>2, <2>1, <2>3, StepEnter DEF EnterFunction
  <2> QED
    BY <2>2, <2>3
<1>3. ASSUME NEW w \in Weights, HandEnter(w) PROVE BudgetInv'
  <2>1. w \in Nat
    BY WeightsAssumption
  <2>2. CASE ~Fits(w)
    BY <1>3, <2>2, StepFault DEF HandEnter
  <2>3. CASE Fits(w)
    BY <1>3, <2>1, <2>3, StepHandEnter
  <2> QED
    BY <2>2, <2>3
<1>u. ASSUME NEW n \in ArgCounts PROVE ApplyUnits(n) \in Nat
  BY UnitsNat, UnitsAssumption DEF ApplyUnits
<1>4. ASSUME NEW n \in ArgCounts, Apply(n) PROVE BudgetInv'
  <2>1. CASE ~Fits(ApplyUnits(n))
    BY <1>4, <2>1, StepFault DEF Apply
  <2>2. CASE Fits(ApplyUnits(n))
    <3>1. frames # <<>> /\ ~faulted /\ ApplyHolds(frames, ApplyUnits(n))
      BY <1>4, <2>2 DEF Apply, Runs
    <3> QED
      BY <1>u, <2>2, <3>1, StepApply
  <2> QED
    BY <2>1, <2>2
<1>17. ASSUME NEW n \in ArgCounts, ApplyLike(n) PROVE BudgetInv'
  <2>1. CASE ~Fits(ApplyUnits(n))
    BY <1>17, <2>1, StepFault DEF ApplyLike
  <2>2. CASE Fits(ApplyUnits(n))
    <3>1. /\ frames # <<>> /\ ~faulted
          /\ frames' = Append(frames, [Frame("copies", 0) EXCEPT !.units = ApplyUnits(n)])
          /\ UNCHANGED <<stackDepth, acts, holds, applyAct, faulted, byHand, handsLeft>>
      BY <1>17, <2>2 DEF ApplyLike, Runs
    <3> QED
      BY <1>u, <2>2, <3>1, StepApplyLike
  <2> QED
    BY <2>1, <2>2
<1>18. CASE Copied
  BY <1>18, StepCopied DEF Copied, Runs
<1>5. ASSUME NEW n \in ArgCounts, NEW id \in Sites, SpreadCall(id, n) PROVE BudgetInv'
  <2> DEFINE u == Units(n, CALL_UNITS)
  <2>1. u \in Nat
    BY UnitsNat, UnitsAssumption
  <2>2. CASE DepthReleased(id) + u > NR_LIMIT
    BY <1>5, <2>2, StepFault DEF SpreadCall
  <2>3. CASE ~(DepthReleased(id) + u > NR_LIMIT)
    <3>1. /\ frames # <<>> /\ Last1(frames).kind = "fn" /\ ~faulted /\ Hold(id, u)
          /\ frames' = Append(frames, [Frame("spread", u) EXCEPT !.id = id])
          /\ UNCHANGED <<acts, applyAct, faulted, byHand, handsLeft>>
      BY <1>5, <2>3 DEF SpreadCall, InFunction, Runs
    <3>2. DepthReleased(id) + u <= NR_LIMIT
      <4>1. DepthReleased(id) \in Depths
        BY Released DEF BudgetInv
      <4> QED
        BY <2>1, <2>3, <4>1, LimitAssumption DEF Depths
    <3> HIDE DEF u
    <3> QED
      BY <2>1, <3>1, <3>2, StepSpread
  <2> QED
    BY <2>2, <2>3
<1>6. ASSUME NEW n \in ArgCounts, NEW id \in Sites, HandHold(id, n) PROVE BudgetInv'
  <2>1. CASE DepthReleased(id) + Units(n, CALL_UNITS) > NR_LIMIT
    BY <1>6, <2>1, StepFault DEF HandHold
  <2>2. CASE ~(DepthReleased(id) + Units(n, CALL_UNITS) > NR_LIMIT)
    BY <1>6, <2>2, StepHandHold
  <2> QED
    BY <2>1, <2>2
<1>7. ASSUME NEW k \in 1 .. BOUND_ARGS_MAX, NEW fresh \in BOOLEAN, Bind(k, fresh) PROVE BudgetInv'
  <2>1. Fault \/ UNCHANGED <<stackDepth, acts, holds, applyAct, faulted, frames, byHand, handsLeft>>
    BY <1>7 DEF Bind
  <2> QED
    BY <2>1, StepFault, StepQuiet
<1>8. ASSUME frames # <<>>, LeaveFunction, Last1(frames).kind = "fn" PROVE BudgetInv'
  BY <1>8, StepLeaveFunction DEF LeaveFunction, Pop
<1>9. ASSUME frames # <<>>, LeaveApply, Last1(frames).kind = "apply" PROVE BudgetInv'
  BY <1>9, StepLeaveApply DEF LeaveApply, Pop
<1>10. CASE Return
  <2>1. frames # <<>>
    BY <1>10 DEF Return
  <2>2. CASE Last1(frames).kind = "spread" /\ ~(Last1(frames).kind = "fn") /\ ~(Last1(frames).kind = "apply")
    <3>1. /\ stackDepth' = DepthReleased(Last1(frames).id) /\ holds' = HoldsReleased(Last1(frames).id)
          /\ frames' = Front1(frames) /\ UNCHANGED <<acts, applyAct, faulted, byHand, handsLeft>>
      BY <1>10, <2>2 DEF Return, Pop
    <3> QED
      BY <2>1, <2>2, <3>1, StepReturnSpread
  <2>3. \/ LeaveFunction /\ Last1(frames).kind = "fn"
        \/ LeaveApply /\ Last1(frames).kind = "apply"
        \/ Last1(frames).kind = "spread"
    BY <1>10, Zenon DEF Return
  <2>4. Last1(frames).kind = "spread" => ~(Last1(frames).kind = "fn") /\ ~(Last1(frames).kind = "apply")
    OBVIOUS
  <2> QED
    BY <2>1, <2>2, <2>3, <2>4, <1>8, <1>9
<1>11. ASSUME NEW e, Throw(e) PROVE BudgetInv'
  BY <1>11, StepQuiet DEF Throw
<1>12. CASE Rethrow
  BY <1>11, <1>12 DEF Rethrow
<1>13. CASE Catch
  <2>1. Fault \/ UNCHANGED <<stackDepth, acts, holds, applyAct, faulted, frames, byHand, handsLeft>>
    BY <1>13 DEF Catch
  <2> QED
    BY <2>1, StepFault, StepQuiet
<1>14. CASE Unwind
  <2>1. CASE frames = <<>>
    <3>1. UNCHANGED <<stackDepth, acts, holds, applyAct, faulted, frames, byHand, handsLeft>>
      BY <1>14, <2>1 DEF Unwind
    <3> QED
      BY <3>1, StepQuiet
  <2>2. CASE frames # <<>>
    <3>1. \/ Fault
          \/ LeaveFunction /\ Last1(frames).kind = "fn"
          \/ LeaveApply /\ Last1(frames).kind = "apply"
          \/ /\ Last1(frames).kind = "copies" /\ frames' = Front1(frames)
             /\ UNCHANGED <<stackDepth, acts, holds, applyAct, faulted, byHand, handsLeft>>
          \/ /\ Last1(frames).kind = "spread"
             /\ frames' = [Front1(frames) EXCEPT ![Len(frames) - 1].leaked = TRUE]
             /\ UNCHANGED <<stackDepth, acts, holds, applyAct, faulted, byHand, handsLeft>>
      BY <1>14, <2>2 DEF Unwind, Pop
    <3> QED
      BY <2>2, <3>1, <1>8, <1>9, StepFault, StepUnwindSpread, StepUnwindCopies
  <2> QED
    BY <2>1, <2>2
<1>15. ASSUME NEW token \in byHand, HandExit(token) PROVE BudgetInv'
  BY <1>15, StepHandExit
<1>16. ASSUME NEW id \in Sites, HandRelease(id) PROVE BudgetInv'
  BY <1>16, StepHandRelease
<1> QED
  BY <1>1, <1>2, <1>3, <1>4, <1>5, <1>6, <1>7, <1>10, <1>11, <1>12, <1>13, <1>14, <1>15, <1>16, <1>17, <1>18
     DEF StackNext

\* Every step keeps what is said of the values that fly.
LEMMA ThrownStep ==
  ASSUME StackInv, [StackNext]_nstVars
  PROVE  ValuesTypeOK' /\ ThrownInv'
<1>0. BudgetInv /\ ValuesTypeOK /\ ThrownInv
  BY DEF StackInv
<1>n. Nothing \in ThrownValues /\ ~Nothing.thrown /\ Nothing.origin = "none" /\ ~Nothing.fresh
  BY DEF Nothing, Thrown, ThrownValues
<1>1. CASE UNCHANGED <<bound, flying, kept, faulted, frames>>
  BY <1>0, <1>1 DEF ValuesTypeOK, ThrownInv, IsOverflow
\* Without a value that flies the stack may change.
<1>2. ASSUME Runs, bound' \in Nat, UNCHANGED <<flying, kept, faulted>> PROVE ValuesTypeOK' /\ ThrownInv'
  <2>1. flying' = Nothing /\ flying = Nothing /\ ~faulted /\ ~flying'.thrown
    BY <1>0, <1>2, <1>n DEF ThrownInv, Runs
  <2> QED
    BY <1>0, <1>2, <2>1 DEF ValuesTypeOK, ThrownInv, IsOverflow
<1>3. ASSUME Fault, Runs \/ IsOverflow(flying) PROVE ValuesTypeOK' /\ ThrownInv'
  <2>1. /\ faulted' /\ frames' = <<>> /\ flying' = [flying EXCEPT !.thrown = FALSE]
        /\ UNCHANGED <<bound, kept>>
    BY <1>3 DEF Fault
  <2>2. flying.origin \in {"none", "overflow"}
    BY <1>0, <1>3, <1>n DEF ThrownInv, Runs
  <2>3. /\ flying' \in ThrownValues /\ ~flying'.thrown /\ flying'.origin = flying.origin
        /\ flying'.fresh = flying.fresh /\ flying'.real = flying.real /\ flying'.text = flying.text
    BY <1>0, <2>1 DEF ValuesTypeOK, ThrownValues
  <2> QED
    BY <1>0, <2>1, <2>2, <2>3 DEF ValuesTypeOK, ThrownInv, IsOverflow
<1>4. ASSUME NEW w \in Weights, EnterFunction(w) PROVE ValuesTypeOK' /\ ThrownInv'
  BY <1>0, <1>2, <1>3, <1>4 DEF EnterFunction, ValuesTypeOK
<1>5. ASSUME NEW n \in ArgCounts, Apply(n) PROVE ValuesTypeOK' /\ ThrownInv'
  BY <1>0, <1>2, <1>3, <1>5 DEF Apply, ApplyHolds, ValuesTypeOK
<1>21. ASSUME NEW n \in ArgCounts, ApplyLike(n) PROVE ValuesTypeOK' /\ ThrownInv'
  BY <1>0, <1>2, <1>3, <1>21 DEF ApplyLike, ValuesTypeOK
<1>22. CASE Copied
  BY <1>0, <1>2, <1>22 DEF Copied, ApplyHolds, ValuesTypeOK
<1>6. ASSUME NEW n \in ArgCounts, NEW id \in Sites, SpreadCall(id, n) PROVE ValuesTypeOK' /\ ThrownInv'
  BY <1>0, <1>2, <1>3, <1>6 DEF SpreadCall, InFunction, ValuesTypeOK
<1>7. ASSUME NEW k \in 1 .. BOUND_ARGS_MAX, NEW fresh \in BOOLEAN, Bind(k, fresh)
      PROVE  ValuesTypeOK' /\ ThrownInv'
  <2>1. Runs /\ (Fault \/ (bound' = (IF fresh THEN 0 ELSE bound) + k /\ UNCHANGED <<flying, kept, faulted>>))
    BY <1>7 DEF Bind, InFunction
  <2>2. (IF fresh THEN 0 ELSE bound) + k \in Nat
    BY <1>0, UnitsAssumption DEF ValuesTypeOK
  <2> QED
    BY <1>2, <1>3, <2>1, <2>2
<1>8. CASE Return
  <2>1. Runs /\ UNCHANGED <<flying, kept, faulted, bound>>
    BY <1>8 DEF Return, LeaveFunction, LeaveApply
  <2> QED
    BY <1>0, <1>2, <2>1 DEF ValuesTypeOK
<1>9. ASSUME ByHand, UNCHANGED <<flying, kept, faulted, bound>> PROVE ValuesTypeOK' /\ ThrownInv'
  BY <1>0, <1>2, <1>9 DEF ByHand, ValuesTypeOK
<1>10. ASSUME NEW e \in ThrownValues, Throw(e), IsOverflow(e) <=> e.origin = "overflow", e.thrown
       PROVE  ValuesTypeOK' /\ ThrownInv'
  <2>1. /\ flying' = e /\ frames # <<>> /\ frames' = frames /\ ~faulted /\ ~faulted'
        /\ UNCHANGED <<kept, bound>>
    BY <1>10 DEF Throw, Runs
  <2> QED
    BY <1>0, <1>10, <2>1 DEF ValuesTypeOK, ThrownInv, IsOverflow
<1>11. ASSUME NEW e \in EngineErrors \cup BuiltErrors \cup LookAlikes, Throw(e)
       PROVE  ValuesTypeOK' /\ ThrownInv'
  <2>1. e \in ThrownValues /\ e.thrown /\ (IsOverflow(e) <=> e.origin = "overflow")
    <3>1. \/ e = [thrown |-> TRUE, origin |-> "overflow", fresh |-> TRUE, real |-> TRUE, text |-> TRUE]
          \/ e = [thrown |-> TRUE, origin |-> "engine", fresh |-> TRUE, real |-> TRUE, text |-> FALSE]
          \/ e = [thrown |-> TRUE, origin |-> "built", fresh |-> FALSE, real |-> TRUE, text |-> TRUE]
          \/ e = [thrown |-> TRUE, origin |-> "object", fresh |-> TRUE, real |-> FALSE, text |-> TRUE]
      BY Zenon DEF EngineErrors, BuiltErrors, LookAlikes, Thrown
    <3>2. /\ e \in ThrownValues /\ e.thrown
          /\ (e.fresh /\ e.real /\ e.text) <=> e.origin = "overflow"
      <4>1. CASE e = [thrown |-> TRUE, origin |-> "overflow", fresh |-> TRUE, real |-> TRUE, text |-> TRUE]
        BY <4>1 DEF ThrownValues
      <4>2. CASE e = [thrown |-> TRUE, origin |-> "engine", fresh |-> TRUE, real |-> TRUE, text |-> FALSE]
        BY <4>2 DEF ThrownValues
      <4>3. CASE e = [thrown |-> TRUE, origin |-> "built", fresh |-> FALSE, real |-> TRUE, text |-> TRUE]
        BY <4>3 DEF ThrownValues
      <4>4. CASE e = [thrown |-> TRUE, origin |-> "object", fresh |-> TRUE, real |-> FALSE, text |-> TRUE]
        BY <4>4 DEF ThrownValues
      <4> QED
        BY <3>1, <4>1, <4>2, <4>3, <4>4
    <3> QED
      BY <3>2 DEF IsOverflow
  <2> QED
    BY <1>10, <1>11, <2>1
<1>12. CASE Rethrow
  <2> DEFINE e == [kept EXCEPT !.text = TRUE]
  <2>1. e \in ThrownValues /\ e.thrown /\ ~e.fresh /\ e.origin # "overflow"
    BY <1>0, <1>12 DEF ValuesTypeOK, ThrownValues, ThrownInv, Rethrow
  <2>2. Throw(e)
    BY <1>12 DEF Rethrow
  <2>3. IsOverflow(e) <=> e.origin = "overflow"
    BY <2>1 DEF IsOverflow
  <2> HIDE DEF e
  <2> QED
    BY <1>10, <2>1, <2>2, <2>3
<1>13. ASSUME flying.thrown, ~IsOverflow(flying), ~faulted
       PROVE  /\ Seen(flying) \in ThrownValues /\ Seen(flying).origin # "overflow" /\ ~Seen(flying).fresh
              /\ Seen(flying).thrown
  BY <1>0, <1>13 DEF Seen, ValuesTypeOK, ThrownValues, ThrownInv
<1>f. flying.thrown => ~faulted
  BY <1>0 DEF ThrownInv
<1>14. CASE Catch
  <2>1. CASE IsOverflow(flying)
    BY <1>3, <1>14, <2>1 DEF Catch
  <2>2. CASE ~IsOverflow(flying)
    <3>1. /\ flying.thrown /\ kept' = Seen(flying) /\ flying' = Nothing /\ UNCHANGED <<bound, faulted, frames>>
      BY <1>14, <2>2 DEF Catch
    <3> QED
      BY <1>0, <1>13, <1>f, <1>n, <2>2, <3>1 DEF ValuesTypeOK, ThrownInv, IsOverflow
  <2> QED
    BY <2>1, <2>2
<1>15. CASE Unwind
  <2>0. flying.thrown /\ ~faulted
    BY <1>15, <1>f DEF Unwind
  <2>1. CASE frames = <<>>
    <3>1. kept' = flying /\ flying' = Nothing /\ UNCHANGED <<bound, faulted, frames>>
      BY <1>15, <2>1 DEF Unwind
    <3>2. ~flying.fresh /\ flying.origin # "overflow"
      BY <1>0, <2>0, <2>1 DEF ThrownInv, IsOverflow
    <3> QED
      BY <1>0, <1>n, <2>0, <3>1, <3>2 DEF ValuesTypeOK, ThrownInv, IsOverflow
  <2>2. CASE frames # <<>> /\ Last1(frames).kind = "fn"
    <3>1. CASE IsOverflow(flying)
      <4>1. Fault
        BY <1>15, <2>2, <3>1 DEF Unwind
      <4> QED
        BY <1>3, <3>1, <4>1
    <3>2. CASE ~IsOverflow(flying)
      <4>1. flying' = Seen(flying) /\ UNCHANGED <<kept, bound, faulted>>
        BY <1>15, <2>2, <3>2 DEF Unwind, LeaveFunction
      <4> QED
        BY <1>0, <1>13, <2>0, <3>2, <4>1 DEF ValuesTypeOK, ThrownInv, IsOverflow
    <3> QED
      BY <3>1, <3>2
  <2>3. CASE frames # <<>> /\ Last1(frames).kind # "fn"
    <3>1. Len(frames) \in Nat /\ Len(frames) \in 2 .. Len(frames)
      BY <1>0, <2>3, BelowNative
    <3>2. Len(Front1(frames)) = Len(frames) - 1 /\ Front1(frames) \in Seq(Frames)
      BY <1>0, <2>3, PoppedFrames DEF BudgetInv
    <3>3. Front1(frames) # <<>> /\ DOMAIN Front1(frames) # {}
      <4>1. Len(Front1(frames)) > 0
        BY <3>1, <3>2
      <4>2. DOMAIN Front1(frames) = 1 .. Len(Front1(frames))
        BY <3>2, LenProperties
      <4>3. 1 \in DOMAIN Front1(frames)
        BY <4>1, <4>2, <3>1, <3>2
      <4> QED
        BY <3>2, <4>1, <4>3, EmptySeq
    <3>4. UNCHANGED <<kept, bound, faulted, flying>> /\
            \/ frames' = Front1(frames)
            \/ frames' = [Front1(frames) EXCEPT ![Len(frames) - 1].leaked = TRUE]
      BY <1>15, <2>3 DEF Unwind, LeaveApply, Pop
    <3>5. frames' # <<>>
      BY <3>3, <3>4
    <3> QED
      BY <1>0, <2>0, <3>4, <3>5 DEF ValuesTypeOK, ThrownInv, IsOverflow
  <2> QED
    BY <2>1, <2>2, <2>3
<1>16. CASE UNCHANGED nstVars
  BY <1>1, <1>16 DEF nstVars
<1>17. ASSUME NEW w \in Weights, HandEnter(w) PROVE ValuesTypeOK' /\ ThrownInv'
  BY <1>3, <1>9, <1>17 DEF HandEnter, ByHand
<1>18. ASSUME NEW n \in ArgCounts, NEW id \in Sites, HandHold(id, n) PROVE ValuesTypeOK' /\ ThrownInv'
  BY <1>3, <1>9, <1>18 DEF HandHold, ByHand
<1>19. ASSUME NEW token \in byHand, HandExit(token) PROVE ValuesTypeOK' /\ ThrownInv'
  BY <1>9, <1>19 DEF HandExit
<1>20. ASSUME NEW id \in Sites, HandRelease(id) PROVE ValuesTypeOK' /\ ThrownInv'
  BY <1>9, <1>20 DEF HandRelease
<1> QED
  BY <1>4, <1>5, <1>6, <1>7, <1>8, <1>11, <1>12, <1>14, <1>15, <1>16, <1>17, <1>18, <1>19, <1>20, <1>21, <1>22
     DEF StackNext

\* Before the host calls, nothing is on the stack.
LEMMA StackInitInv ==
  ASSUME StackInit
  PROVE  StackInv
<1>1. /\ frames = <<>> /\ acts = <<>> /\ holds = <<>> /\ byHand = {} /\ stackDepth = 0 /\ faulted = FALSE
      /\ flying = Nothing /\ kept = Nothing /\ bound = 0 /\ applyAct = -1 /\ handsLeft = MaxByHand
  BY DEF StackInit
<1>2. Len(frames) = 0 /\ Len(acts) = 0 /\ Len(holds) = 0
  BY <1>1
<1>3. BudgetTypeOK
  <2>1. frames \in Seq(Frames) /\ acts \in Seq(Entries) /\ holds \in Seq(Holdings)
    BY <1>1
  <2>2. byHand \in SUBSET Tokens /\ IsFiniteSet(byHand)
    BY <1>1, FS_EmptySet
  <2>3. stackDepth \in Depths /\ handsLeft \in 0 .. MaxByHand /\ applyAct \in Int /\ faulted \in BOOLEAN
    <3>1. -1 \in Int /\ 0 \in 0 .. NR_LIMIT /\ MaxByHand \in 0 .. MaxByHand
      BY LimitAssumption, HandAssumption
    <3> QED
      BY <1>1, <3>1 DEF Depths
  <2> QED
    BY <2>1, <2>2, <2>3 DEF BudgetTypeOK
<1>4. FramesOK(frames)
  BY <1>2 DEF FramesOK, BottomIsFunction, SpreadInFunction, LiveInLimit, CopiesHoldNothing,
                     LiveGrows
<1>5. EntriesOK(frames, acts, byHand) /\ HoldsOK(acts, holds)
  BY <1>2 DEF EntriesOK, HasEntry, EntriesInOrder, TokensDiffer, HoldsOK, HoldsOfActivations, HoldsInOrder
<1>6. DepthOK(frames, stackDepth)
  BY <1>2 DEF DepthOK, FunctionsCovered, TopCovered
<1>7. RecordsOK(frames, acts, holds)
  BY <1>2 DEF RecordsOK, ApplyCovers, EntryCoversBelow, EntryCovers, HoldCovers
<1>8. Exact(frames, acts, holds, stackDepth)
  BY <1>1, <1>2 DEF Exact, EntryHasFrame, ApplyExact, EntryExact, HoldIsOfSpread, HoldIsSingle,
                     SpreadHasHold, DepthExact, LiveAt
<1>9. Nothing \in ThrownValues /\ ~Nothing.thrown /\ Nothing.origin = "none" /\ ~Nothing.fresh
  BY DEF Nothing, Thrown, ThrownValues
<1>10. ValuesTypeOK /\ ThrownInv
  BY <1>1, <1>9 DEF ValuesTypeOK, ThrownInv, IsOverflow
<1> QED
  BY <1>3, <1>4, <1>5, <1>6, <1>7, <1>8, <1>10 DEF StackInv, BudgetInv, Covered

\* The records cover and restore what they must, so the budget does.
LEMMA StackInvImplies ==
  ASSUME StackInv
  PROVE  StackAccounted
<1>1. BudgetTypeOK /\ Covered(frames, acts, holds, byHand, stackDepth) /\ ThrownInv
  BY DEF StackInv, BudgetInv
<1>2. stackDepth \in Nat /\ NR_LIMIT \in Nat /\ TypedFrames(frames) /\ Len(frames) \in Nat
  BY <1>1, Typed DEF TypedFrames
<1>3. LiveUnits = LiveAt(frames, Len(frames)) /\ LiveUnits \in Nat
      /\ (Len(frames) > 0 => LiveUnits = frames[Len(frames)].live)
  BY <1>1, NewFrame
<1>6. BudgetCoversStack
  <2>1. CASE Len(frames) = 0
    BY <1>2, <1>3, <2>1 DEF LiveAt, BudgetCoversStack
  <2>2. CASE Len(frames) > 0
    <3>1. LiveUnits <= stackDepth
      BY <1>1, <1>3, <2>2 DEF Covered, DepthOK, TopCovered
    <3>2. Len(frames) \in 1 .. Len(frames)
      BY <1>2, <2>2
    <3>3. /\ frames[Len(frames)].live + frames[Len(frames)].units <= NR_LIMIT
          /\ frames[Len(frames)].units \in Nat
      BY <1>1, <1>2, <3>2 DEF Covered, FramesOK, LiveInLimit, TypedFrames
    <3>4. LiveUnits <= NR_LIMIT
      BY <1>2, <1>3, <2>2, <3>3
    <3> QED
      BY <3>1, <3>4 DEF BudgetCoversStack
  <2> QED
    BY <1>2, <2>1, <2>2
<1>7. BudgetIsExact
  <2>1. SUFFICES ASSUME handsLeft = MaxByHand, Runs, \A i \in DOMAIN frames : ~frames[i].leaked
                 PROVE  stackDepth = LiveUnits
    BY DEF BudgetIsExact
  <2>2. DepthExact(frames, stackDepth)
    BY <2>1 DEF StackInv, BudgetInv, HandsOff, Runs, Exact
  <2>3. DOMAIN frames = 1 .. Len(frames)
    BY <1>1, LenProperties DEF BudgetTypeOK
  <2>4. Clear(frames, Len(frames))
    BY <2>1, <2>3 DEF Clear
  <2> QED
    BY <1>3, <2>2, <2>4 DEF DepthExact
<1>8. OverflowIsTerminal
  BY <1>1 DEF ThrownInv, OverflowIsTerminal
<1> QED
  BY <1>6, <1>7, <1>8 DEF StackAccounted

\* Whatever the contract calls, in whatever order, by hand or not, and however its
\* calls end: the budget of the native stack rule (harness_hooks.js) covers the
\* functions on the native stack, and the applies and spread calls under which no
\* hook was called by hand, and these stay within the limit; it is exact where no
\* hook was called by hand and no spread call threw; and the engine's own overflow,
\* and no other value, ends the run.
THEOREM StackIsAccounted == StackSpec => []StackAccounted
<1>1. StackInit => StackInv
  BY StackInitInv
<1>2. StackInv /\ [StackNext]_nstVars => StackInv'
  BY BudgetStep, ThrownStep DEF StackInv
<1>3. StackInv => StackAccounted
  BY StackInvImplies
<1> QED
  BY <1>1, <1>2, <1>3, PTL DEF StackSpec

===============================================================================
