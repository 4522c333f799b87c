------------------------------ MODULE MCStringify -----------------------------
(***************************************************************************)
(* Objects for JSON.stringify: an outer array or object that holds an      *)
(* inner one, with leaves, accessors, wrappers and toJSON methods.         *)
(***************************************************************************)
EXTENDS StringifyGuard, TLC

Obj(isArr, objSlots, toJSON) == [arr |-> isArr, slots |-> objSlots, toJSON |-> toJSON]
MCHeaps ==
    {("a" :> x) @@ ("b" :> y) :
        x \in {Obj(a, <<Ref("b"), s>>, FALSE) : a \in BOOLEAN, s \in {Leaf, Skip, Get, Wrap, Ref("b")}},
        y \in {Obj(FALSE, s, j) : s \in {<<Leaf, Skip>>, <<Get>>}, j \in BOOLEAN}}
MCKeyList == <<2>>
===============================================================================
