----------------------------- MODULE MCConverters -----------------------------
(* Sources of each suite: two of one stem, one of another, and one that lies  *)
(* where the output of the first would go.                                    *)
EXTENDS Converters

Source(stem, kind) == <<"home", stem, kind, 0>>
Twin(stem, kind)   == <<"other", stem, kind, 0>>
Earlier(stem)      == Output(stem, "converted", 0)

a1  == Source("a", "jpg")
a2  == Twin("a", "jpg")
b1  == Source("b", "jpg")
ax  == Earlier("a")
doc == Source("a", "doc")
va  == Source("a", "avi")
pa  == Source("a", "pdf")
pb  == Source("b", "pdf")
ta  == Source("a", "py")
tb  == Source("b", "py")
tc  == Source("c", "py")
td  == Source("d", "py")

Accepts ==
    [op \in Ops |->
        IF op = "convert" THEN {a1, a2, b1, ax}
        ELSE IF op = "translate" THEN {doc}
        ELSE IF op \in {"densities", "drawable"} THEN {Source("a", "svg")}
        ELSE IF op \in Suites["media"] THEN {va, ax}
        ELSE IF op \in Suites["pdf"] THEN {pa, pb}
        ELSE {ta, tb, tc, td}]
Lists ==
    [image    |-> {<<a1, b1>>, <<a1, a2>>, <<ax>>, <<Source("a", "svg")>>},
     document |-> {<<doc>>},
     media    |-> {<<va>>, <<ax>>},
     pdf      |-> {<<pa, pb>>, <<pa>>},
     packager |-> {<<ta, tb, tc, td>>}]
Mute    == {ax}
Secret  == {pa}
Edits   == [s \in DOMAIN Suites |-> IF s \in {"image", "pdf"} THEN 1 ELSE 0]
Weights == [p \in {ta, tb, tc, td} |-> IF p = tb THEN 3 ELSE 1]
=============================================================================
