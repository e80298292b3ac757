------------------------- MODULE MCGatewayReconciler -------------------------
(* A publication that drops a route of the one before. *)
EXTENDS GatewayReconciler

MCRoute ==
    [d \in RouteSets |-> IF d = "a" THEN [m1 |-> "abs", m2 |-> "on"] ELSE [m1 |-> "off", m2 |-> "none"]]
=============================================================================
