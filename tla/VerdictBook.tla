----------------------------- MODULE VerdictBook -----------------------------
(***************************************************************************)
(* What core/registry.py promises of each module, whoever asks for it and  *)
(* however often: it is given one verdict, loaded or degraded; a degraded  *)
(* one stays so, and a loaded one until everything is unloaded at once.    *)
(***************************************************************************)
CONSTANT Modules

VARIABLE verdict

Init == verdict = [m \in Modules |-> "open"]

Settle(m) ==
    /\ verdict[m] = "open"
    /\ \E v \in {"loaded", "degraded"} : verdict' = [verdict EXCEPT ![m] = v]

Unload == verdict' = [m \in Modules |-> IF verdict[m] = "loaded" THEN "open" ELSE verdict[m]]

Next == Unload \/ \E m \in Modules : Settle(m)
Spec == Init /\ [][Next]_verdict
=============================================================================
