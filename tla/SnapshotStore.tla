----------------------------- MODULE SnapshotStore -----------------------------
(***************************************************************************)
(* What the configuration distribution server's version counter and       *)
(* snapshot cache promise (spec sections 3 and 8), without the proxies:   *)
(* a process-wide counter that only grows, and per proxy instance the     *)
(* lifecycle Uninitialized -> Active(N) -> Active(N') with N < N', where  *)
(* every version a snapshot carries is one the counter has already        *)
(* issued.  A restart of the process starts both from nothing.            *)
(*                                                                         *)
(* It does not promise that two instances never share a version token:  *)
(* the implementation does not keep that (the run xds_version_race).      *)
(***************************************************************************)
EXTENDS Naturals

CONSTANTS
    Nodes,       \* proxy instance identifiers
    Configs,     \* resource sets a snapshot may carry
    NoSnapshot   \* the instance is Uninitialized

VARIABLES
    counter,     \* the process-wide version counter
    store        \* instance -> its current snapshot, or NoSnapshot

storeVars == <<counter, store>>

\* The version an instance is Active at; 0 when Uninitialized.
ActiveVersion(n) == IF store[n] = NoSnapshot THEN 0 ELSE store[n].ver

Init ==
    /\ counter = 0
    /\ store = [n \in Nodes |-> NoSnapshot]

\* The counter issues a new version.
Issue ==
    /\ counter' = counter + 1
    /\ UNCHANGED store

\* Instance n moves to a snapshot of an issued version above its own.
Publish(n, s) ==
    /\ s.res \in Configs
    /\ s.ver \in 1..counter
    /\ ActiveVersion(n) < s.ver
    /\ store' = [store EXCEPT ![n] = s]
    /\ UNCHANGED counter

\* The process restarts: nothing issued, nothing cached.
Reset ==
    /\ counter' = 0
    /\ store' = [n \in Nodes |-> NoSnapshot]

Next ==
    \/ Issue
    \/ \E n \in Nodes, v \in 1..counter, r \in Configs : Publish(n, [ver |-> v, res |-> r])
    \/ Reset

Spec == Init /\ [][Next]_storeVars
=============================================================================
