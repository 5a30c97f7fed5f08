--------------------------- MODULE MCRecycleStore ---------------------------
(***************************************************************************)
(* Small machines for RecycleStore: two files, each on a volume of its own *)
(* or competing for one path on another volume than the store's.           *)
(***************************************************************************)
EXTENDS RecycleStore, TLC

CONSTANTS i1, i2, p1, p2, v1, v2

\* Two files, each on its own volume.
TwoPaths  == {p1, p2}
HomeApart == i1 :> p1 @@ i2 :> p2
OnTwo     == p1 :> v1 @@ p2 :> v2

\* Two files saved, one after the other, under the same path.
OnePath   == {p1}
HomeSame  == i1 :> p1 @@ i2 :> p1
OnOther   == p1 :> v2

\* What goes wrong: nearly everything, or a manifest is forged; or moves only.
Harsh == {{"kill", "removal", "breaks", "adds"}, {"kill", "move", "removal", "breaks"}, {"forges"}}
Mild  == {{"move"}}
=============================================================================
