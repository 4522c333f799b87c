---------------------------- MODULE KeyValueStore -----------------------------
(***************************************************************************)
(* What contract state promises: a map from names to values in which a put *)
(* of a new name needs room and a removal needs the name to be there.      *)
(***************************************************************************)
EXTENDS Integers, FiniteSets

CONSTANTS Names, Values, Absent, Room

VARIABLE store

Live == {n \in Names : store[n] # Absent}

Init == store \in [Names -> Values \cup {Absent}]

Put(n, v) ==
    /\ n \in Live \/ Cardinality(Live) < Room
    /\ store' = [store EXCEPT ![n] = v]

Remove(n) ==
    /\ n \in Live
    /\ store' = [store EXCEPT ![n] = Absent]

Next == \E n \in Names : (\E v \in Values : Put(n, v)) \/ Remove(n)

Spec == Init /\ [][Next]_store
===============================================================================
