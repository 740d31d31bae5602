--------------------------- MODULE MCNodeCounters ---------------------------
(* Two restarts are the fewest after which a replaced session is resumed.   *)
EXTENDS NodeCountersProperties
=============================================================================
