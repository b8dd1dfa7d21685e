----------------------------- MODULE MCPodDrain -----------------------------
(* Small instances of PodDrain for TLC.                                    *)
EXTENDS PodDrain
Bounds(f, r) == [k \in Disturbances |-> IF k = "fault" THEN f ELSE r]
Calm == Bounds(0, 0)
Replaced == Bounds(0, 2)
FaultyReplaced == Bounds(1, 1)
=============================================================================
