-------------------------- MODULE MCGatewayOperator --------------------------
(* A route that is switched off and on again. *)
EXTENDS GatewayOperator

MCOffAndOn ==
    [i \in 1 .. 3 |-> [dep |-> 1, policy |-> 1,
                       routes |-> [r \in ModelRoutes |-> IF i = 2 THEN "off" ELSE "on"]]]
=============================================================================
