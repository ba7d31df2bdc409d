---------------------------- MODULE MCSyncAndPool ----------------------------
(***************************************************************************)
(* One tab with its hub, and the driver's warm pool, side by side: a       *)
(* behaviour is one of the tab or one of the pool, while the other stays   *)
(* where it began.                                                         *)
(***************************************************************************)
EXTENDS MCSessionSync, WarmPool

OneOpened == <<s1>>

-----------------------------------------------------------------------------
VARIABLE part

bothVars == <<vars, poolVars, part>>

BothInit == part \in {"tab", "pool"} /\ Init /\ PoolInit

\* Three driver calls alone, or one call and one thing that happens to the pool.
PoolBound == ops + 2 * (looks + lapses + reaps) <= 3

BothNext ==
    \/ part = "tab" /\ Next /\ UNCHANGED <<poolVars, part>>
    \/ part = "pool" /\ PoolNext /\ PoolBound' /\ UNCHANGED <<vars, part>>

BothSpec == BothInit /\ [][BothNext]_bothVars
=============================================================================
