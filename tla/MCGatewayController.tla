------------------------- MODULE MCGatewayController -------------------------
(* Small instance of GatewayController for TLC. *)
EXTENDS GatewayController

CONSTANTS g1, g2, r1, b1, p1, w1, w2

MCGateways == {g1, g2}
MCRoutes == {r1}
MCBackends == {b1}
MCPolicies == {p1}
MCWorkers == {w1, w2}
MCRouteBackends == [r \in MCRoutes |-> {b1}]
MCPolicyTarget == [p \in MCPolicies |-> b1]
=============================================================================
