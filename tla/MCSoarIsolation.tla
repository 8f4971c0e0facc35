-------------------------- MODULE MCSoarIsolation --------------------------
(* A diamond: two branches of one execution and the node that joins them.   *)
EXTENDS SoarIsolation

DiamondNodes == {"left", "right", "join"}
DiamondExecution == [n \in DiamondNodes |-> "e1"]
DiamondDeps == [n \in DiamondNodes |-> IF n = "join" THEN {"left", "right"} ELSE {}]
=============================================================================
