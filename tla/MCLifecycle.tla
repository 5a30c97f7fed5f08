----------------------------- MODULE MCLifecycle -----------------------------
(* Two modules, a manifest that cannot be parsed and one of another tier.    *)
EXTENDS Lifecycle

CONSTANTS garbled, parked, renamer, filter

Listing == <<garbled, renamer, parked, filter>>
Lists   == {<<>>, <<filter, parked, filter>>}
=============================================================================
