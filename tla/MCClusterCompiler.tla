--------------------------- MODULE MCClusterCompiler ---------------------------
EXTENDS ClusterCompiler

CONSTANTS p1

\* The labels "a" and "a-a".
MCLabels == {<<"a">>, <<"a", "-", "a">>}
MCSvcNames == {<<"a">>}
MCHosts == {<<"e", "x", ".", "c", "o", "m">>}
MCRouteNs == <<"a">>
MCPorts == {p1}
=============================================================================
