------------------------- MODULE MCDuplicateFinder -------------------------
(* Three paths and three contents.  Two contents share a size and a digest *)
(* and are interchangeable; no property is about liveness.                 *)
EXTENDS DuplicateFinder

CONSTANTS x, y, z

Tree    == <<"a", "b", "c">>
Texts   == {x, y, z}
Lengths == [t \in Texts |-> IF t = z THEN 2 ELSE 1]
Hashes  == [t \in Texts |-> IF t = z THEN "h2" ELSE "h1"]
Alike   == Permutations({x, y})
=============================================================================
