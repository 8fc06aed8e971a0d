----------------------------- MODULE MCXdsServer -----------------------------
(***************************************************************************)
(* Model-checking instance of XdsServer: two nodes, two publishing        *)
(* goroutines, two well-formed resource sets and one malformed one.       *)
(***************************************************************************)
EXTENDS XdsServer

\* Three publishes: enough for two nodes to be published concurrently and
\* for one node to be replaced once.
MCMaxVersion == 3
=============================================================================
