---------------------------- MODULE MCFileFilter ----------------------------
(* Two trees, one with two files of one name and room for one of another type. *)
EXTENDS FileFilter

CONSTANTS docs, work

At0(t, d, n) == [root |-> t, rel |-> <<d, n>>, k |-> 0]
Listing  == <<At0(docs, "", "a.txt"), At0(docs, "sub", "a.txt"), At0(docs, "sub", "b.log"), At0(work, "", "a.txt")>>
There    == {p \in ToSet(Listing) : p.root = docs /\ p.rel[2] = "a.txt"}
ExtOfName == [n \in {"a.txt", "b.log"} |-> IF n = "a.txt" THEN ".txt" ELSE ".log"]
Alike    == Permutations(Jobs)
=============================================================================
