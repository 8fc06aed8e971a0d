-------------------------- MODULE MCGatewayClassSync --------------------------
EXTENDS GatewayClassSync
=============================================================================
