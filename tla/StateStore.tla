------------------------------ MODULE StateStore ------------------------------
(***************************************************************************)
(* The state a contract sees while it runs: StateManager (state.js), a     *)
(* dirty overlay over the snapshot the indexer handed in, with a running   *)
(* count of live keys that enforces limits.maxStateKeys.                   *)
(*                                                                         *)
(* A key reaches the manager through a JSON bridge, so it is a value with  *)
(* a type: the snapshot is looked up by the string the key coerces to      *)
(* (`key in state`), the overlay by identity (a Map).  With normalizeKeys  *)
(* every key goes through one choke point first; without it `1` and '1'    *)
(* are two overlay entries above one snapshot row, and a key that is an    *)
(* object is a fresh identity at every call.                               *)
(***************************************************************************)
EXTENDS Integers, FiniteSets

CONSTANTS
    Names,          \* the strings keys coerce to
    Overlong,       \* those over limits.maxStateKeySize
    NulNames,       \* those with a NUL byte
    KeyTypes,       \* the JavaScript types of the keys contracts pass
    Values,         \* the values a set may store
    Unstorable,     \* values set() refuses: null, NaN, not JSON, oversized
    MaxStateKeys,   \* limits.maxStateKeys
    KeyRules,       \* the settings of the canonical-key gate under study
    MaxObjects      \* bound: object keys one run puts in the overlay

Nil   == "nil"      \* an absent row; in the overlay, a deleted one
Clean == "clean"    \* a key the overlay does not hold

ASSUME StoreAssumption ==
    /\ IsFiniteSet(Names)
    /\ Overlong \cup NulNames \subseteq Names
    /\ KeyTypes \subseteq {"string", "number", "object"}
    /\ MaxStateKeys \in Nat
    /\ MaxObjects \in Nat
    /\ KeyRules \subseteq BOOLEAN
    /\ Nil \notin Values /\ Clean \notin Values
    /\ Unstorable \cap Values = {}

VARIABLES base, dirty, keyCount, normalizeKeys

storeVars == <<base, dirty, keyCount, normalizeKeys>>

\* What a contract passes, and what the overlay tells apart: nr is the
\* identity of an object key and 0 for a primitive.
Args == [type : KeyTypes, name : Names]
Keys == [type : {"string", "number", "object"}, name : Names, nr : 0..MaxObjects]

StoreTypeOK ==
    /\ base \in [Names -> Values \cup {Nil}]
    /\ dirty \in [Keys -> Values \cup {Nil, Clean}]
    /\ keyCount \in Int
    /\ normalizeKeys \in BOOLEAN

Snapshot == {n \in Names : base[n] # Nil}

StoreInit ==
    /\ normalizeKeys \in KeyRules
    /\ base \in [Names -> Values \cup {Nil}]
    /\ dirty = [k \in Keys |-> Clean]
    /\ keyCount = Cardinality(Snapshot)

\* A new object is never an identity the overlay already holds.
FreshNr == 1 + Cardinality({k \in Keys : k.nr > 0 /\ dirty[k] # Clean})

\* normKey throws on a key that is not a primitive, once gated.
KeyThrows(a) == normalizeKeys /\ a.type = "object"

\* Mutant: the choke point lets numbers through as they are.
normKeyNumbersPass(a) ==
    [type |-> a.type,
     name |-> a.name,
     nr   |-> IF a.type = "object" THEN FreshNr ELSE 0]

normKey(a) ==
    [type |-> IF normalizeKeys THEN "string" ELSE a.type,
     name |-> a.name,
     nr   |-> IF a.type = "object" THEN FreshNr ELSE 0]

get(k) == IF dirty[k] # Clean THEN dirty[k] ELSE base[k.name]
has(k) == get(k) # Nil

\* The size and NUL guards look at string keys only.  The NUL guard has a gate
\* of its own, armed on the same networks at the same block time.
NameRefused(k) ==
    /\ k.type = "string"
    /\ k.name \in Overlong \/ (normalizeKeys /\ k.name \in NulNames)

setThrows(a, v) ==
    \/ KeyThrows(a)
    \/ NameRefused(normKey(a))
    \/ v \in Unstorable
    \/ ~has(normKey(a)) /\ keyCount >= MaxStateKeys

\* Mutant: liveness read off the snapshot, so a key deleted in this run and
\* created again is not counted.
setCountsSnapshot(a, v) ==
    /\ normKey(a) \in Keys
    /\ ~setThrows(a, v)
    /\ dirty' = [dirty EXCEPT ![normKey(a)] = v]
    /\ keyCount' = IF base[a.name] # Nil THEN keyCount ELSE keyCount + 1
    /\ UNCHANGED <<base, normalizeKeys>>

set(a, v) ==
    /\ normKey(a) \in Keys
    /\ ~setThrows(a, v)
    /\ dirty' = [dirty EXCEPT ![normKey(a)] = v]
    /\ keyCount' = IF has(normKey(a)) THEN keyCount ELSE keyCount + 1
    /\ UNCHANGED <<base, normalizeKeys>>

deleteThrows(a) == KeyThrows(a) \/ NameRefused(normKey(a))

\* Mutants: a delete that decrements for keys that are not live; one that skips
\* the choke point.
deleteUnchecked(a) ==
    /\ normKey(a) \in Keys
    /\ ~deleteThrows(a)
    /\ dirty' = [dirty EXCEPT ![normKey(a)] = Nil]
    /\ keyCount' = keyCount - 1
    /\ UNCHANGED <<base, normalizeKeys>>

\* delete() leaves the overlay alone when the key is not live.
delete(a) ==
    /\ normKey(a) \in Keys
    /\ ~deleteThrows(a)
    /\ IF has(normKey(a))
       THEN /\ dirty' = [dirty EXCEPT ![normKey(a)] = Nil]
            /\ keyCount' = keyCount - 1
       ELSE UNCHANGED <<dirty, keyCount>>
    /\ UNCHANGED <<base, normalizeKeys>>

\* getChanges(): the rows the indexer writes and removes.
changes == {[key |-> k, value |-> dirty[k]] :
                k \in {x \in Keys : dirty[x] \notin {Clean, Nil}}}
deletes == {k \in Keys : dirty[k] = Nil}

StoreNext ==
    \/ \E a \in Args, v \in Values \cup Unstorable : set(a, v)
    \/ \E a \in Args : delete(a)

StoreSpec == StoreInit /\ [][StoreNext]_storeVars
-------------------------------------------------------------------------------
(***************************************************************************)
(* What a contract is promised: one store by name.                         *)
(***************************************************************************)
StringKey(n) == [type |-> "string", name |-> n, nr |-> 0]
View == [n \in Names |-> get(StringKey(n))]
LiveNames == {n \in Names : View[n] # Nil}

\* The overlay holds no key but string keys.
Canonical == \A k \in Keys : (k.type = "string" /\ k.nr = 0) \/ dirty[k] = Clean

\* While the overlay is canonical the running count is the number of live keys,
\* whatever sets, overwrites, deletes and re-creations came before (keyCount++
\* in set, keyCount-- in delete), so the limit check compares the right number.
\* Before the gate this is what a contract that sticks to string keys gets.
CountIsExact == Canonical => keyCount = Cardinality(LiveNames)

\* The row of name n once the indexer has applied getChanges() to the snapshot.
Applied(n) ==
    IF \E c \in changes : c.key.name = n
    THEN (CHOOSE c \in changes : c.key.name = n).value
    ELSE IF \E k \in deletes : k.name = n THEN Nil ELSE base[n]

\* What the indexer ends up with is what the contract last read, row by row,
\* and no row is written twice or both written and removed: the order in which
\* the rows are applied cannot matter.
ChangesAreTheView ==
    normalizeKeys =>
        \A n \in Names :
            /\ Applied(n) = View[n]
            /\ Cardinality({c \in changes : c.key.name = n})
                 + Cardinality({k \in deletes : k.name = n}) <= 1

\* With canonical keys the overlay and its count implement the bounded map of
\* KeyValueStore: reads see the last write, and a new name needs room.  Before
\* the gate nothing is promised, and the promised store stands still.
KV == INSTANCE KeyValueStore WITH
        store <- IF normalizeKeys THEN View ELSE base, Absent <- Nil, Room <- MaxStateKeys
ImplementsStore == KV!Spec
===============================================================================
