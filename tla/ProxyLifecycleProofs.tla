------------------------- MODULE ProxyLifecycleProofs -------------------------
(***************************************************************************)
(* Proofs of the two safety properties of ProxyLifecycle, for every bound  *)
(* on failures and calls and every set of listener values.                *)
(*                                                                         *)
(* Neither property is inductive: creating the Deployment keeps           *)
(* DeploymentHasDependencies only because EnsureProxy reaches that step   *)
(* after creating the ServiceAccount and ConfigMap, and deleting the     *)
(* ConfigMap or ServiceAccount keeps it only because DeleteProxy has       *)
(* already deleted the Deployment.  EnsureOrder and DeleteProgress state   *)
(* what each step of the two calls has done before it.                    *)
(***************************************************************************)
EXTENDS ProxyLifecycle, TLAPS

Steps == {"idle", "sa", "cm", "dep", "depwait", "svc", "svcwait", "delete"}

TypeOK ==
    /\ exists \in [Kinds -> BOOLEAN]
    /\ available \in BOOLEAN
    /\ pc \in Steps
    /\ di \in 1..Len(DeleteOrder)
    /\ failures \in Nat /\ calls \in Nat

\* What EnsureProxy has created before each of its steps.
EnsureOrder ==
    /\ pc \in {"cm", "dep", "depwait", "svc", "svcwait"} => exists["sa"]
    /\ pc \in {"dep", "depwait", "svc", "svcwait"} => exists["cm"]
    /\ pc \in {"depwait", "svc", "svcwait"} => exists["dep"]
    /\ pc \in {"svc", "svcwait"} => available
    /\ pc = "svcwait" => exists["svc"]

\* DeleteProxy's first Delete removed the Deployment.
DeleteProgress ==
    pc = "delete" /\ di > 1 => ~exists["dep"]

IInv ==
    /\ TypeOK /\ EnsureOrder /\ DeleteProgress
    /\ DeploymentHasDependencies /\ EnsureSucceededReady

USE ProxyAssumption

LEMMA DeleteOrderFacts ==
    /\ Len(DeleteOrder) = 4
    /\ DeleteOrder[1] = "dep" /\ DeleteOrder[2] = "svc"
    /\ DeleteOrder[3] = "cm" /\ DeleteOrder[4] = "sa"
BY DEF DeleteOrder

LEMMA InitIInv == Init => IInv
<1> SUFFICES ASSUME Init PROVE IInv
  OBVIOUS
<1>1. exists = [k \in Kinds |-> FALSE] /\ available = FALSE /\ pc = "idle" /\ di = 1
      /\ failures = 0 /\ calls = 0 /\ last = <<"none", "ok">>
  BY DEF Init
<1>2. TypeOK
  <2>1. exists \in [Kinds -> BOOLEAN]
    BY <1>1, Zenon
  <2>2. di \in 1..Len(DeleteOrder)
    BY <1>1, DeleteOrderFacts
  <2>3. QED
    BY <1>1, <2>1, <2>2 DEF TypeOK, Steps
<1>3. last # <<"ensure", "ok">>
  BY <1>1
<1>4. ~exists["dep"]
  BY <1>1, Zenon DEF Kinds
<1>5. QED
  BY <1>1, <1>2, <1>3, <1>4 DEF IInv, EnsureOrder, DeleteProgress, DeploymentHasDependencies,
                         EnsureSucceededReady

LEMMA NextIInv == IInv /\ [Next]_vars => IInv'
<1> SUFFICES ASSUME IInv, [Next]_vars PROVE IInv'
  OBVIOUS
<1> USE DEF IInv, TypeOK, EnsureOrder, DeleteProgress, DeploymentHasDependencies,
            EnsureSucceededReady, Steps, Kinds
<1>1. CASE CallEnsure \/ CallDelete
  BY <1>1 DEF CallEnsure, CallDelete
<1>2. ASSUME NEW k \in {"sa", "cm", "dep", "svc"}, EnsureObject(k) PROVE IInv'
  BY <1>2 DEF EnsureObject
<1>3. CASE DeploymentReady \/ ServiceReady
  BY <1>3 DEF DeploymentReady, ServiceReady
<1>4. CASE DeleteObject
  <2>1. DeleteOrder[di] \in Kinds
    BY DeleteOrderFacts
  <2>2. CASE di = 1
    BY <1>4, <2>2, DeleteOrderFacts DEF DeleteObject
  <2>3. CASE di = 2
    BY <1>4, <2>3, DeleteOrderFacts DEF DeleteObject
  <2>4. CASE di = 3
    BY <1>4, <2>4, DeleteOrderFacts DEF DeleteObject
  <2>5. CASE di = 4
    <3>1. pc' = "idle" /\ last' = <<"delete", "ok">> /\ di' = 1
      BY <1>4, <2>5, DeleteOrderFacts DEF DeleteObject
    <3>2. last' # <<"ensure", "ok">>
      BY <3>1
    <3>3. QED
      BY <1>4, <2>5, <3>1, <3>2, DeleteOrderFacts DEF DeleteObject
  <2>6. QED
    BY <2>2, <2>3, <2>4, <2>5, DeleteOrderFacts
<1>5. CASE CallFails
  BY <1>5, DeleteOrderFacts DEF CallFails
<1>6. CASE DeploymentBecomesAvailable
  BY <1>6 DEF DeploymentBecomesAvailable
<1>7. ASSUME NEW l \in ListenerSets, GatewayListenersChange(l) PROVE IInv'
  BY <1>7 DEF GatewayListenersChange
<1>8. CASE UNCHANGED vars
  BY <1>8 DEF vars
<1>9. QED
  BY <1>1, <1>2, <1>3, <1>4, <1>5, <1>6, <1>7, <1>8 DEF Next

(* For any number of failed calls, EnsureProxy and DeleteProxy never     *)
(* leave the proxy's Deployment without the ServiceAccount and ConfigMap *)
(* it mounts: their call orders, create before use and delete the user   *)
(* first, keep it so at every step.                                       *)
THEOREM DependenciesAlwaysPresent == Spec => []DeploymentHasDependencies
<1>1. Spec => []IInv
  BY InitIInv, NextIInv, PTL DEF Spec
<1>2. QED
  BY <1>1, PTL DEF IInv

(* Whenever EnsureProxy has returned success, all four objects exist and *)
(* the Deployment is Available, whatever earlier failed calls left.      *)
THEOREM EnsureReturnsReady == Spec => []EnsureSucceededReady
<1>1. Spec => []IInv
  BY InitIInv, NextIInv, PTL DEF Spec
<1>2. QED
  BY <1>1, PTL DEF IInv
=============================================================================
