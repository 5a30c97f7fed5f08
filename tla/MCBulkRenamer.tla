--------------------------- MODULE MCBulkRenamer ---------------------------
(* Three names, two of which differ in case only, on every kind of machine.  *)
(* Files and threads are interchangeable, and no property is about liveness. *)
EXTENDS BulkRenamer

Letters == <<"A", "a", "b">>
Lower   == [n \in {"A", "a", "b"} |-> IF n = "A" THEN "a" ELSE n]
Windows == [sys |-> "windows", folds |-> TRUE]
Mac     == [sys |-> "posix", folds |-> TRUE]
Linux   == [sys |-> "posix", folds |-> FALSE]
UsbDisk == [sys |-> "nolinks", folds |-> TRUE]
Every   == {Windows, Mac, Linux, UsbDisk}
Alike   == Permutations(Files) \cup Permutations(Threads)
=============================================================================
