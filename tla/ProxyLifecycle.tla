---------------------------- MODULE ProxyLifecycle ----------------------------
(***************************************************************************)
(* The lifecycle of one Gateway's Envoy proxy in pkg/infra/envoy/proxy.go: *)
(* EnsureProxy creates, in order, its ServiceAccount, bootstrap ConfigMap, *)
(* Deployment (then polls until it is Available) and Service (then polls   *)
(* until it has a ClusterIP); DeleteProxy deletes the Deployment, Service, *)
(* ConfigMap and ServiceAccount in that order.  Every ensure step is a Get *)
(* that creates the object on NotFound and leaves an existing one as it   *)
(* is.  Any API call can fail, and the function then returns the error at *)
(* once, leaving whatever it created or deleted so far.                    *)
(*                                                                         *)
(* The caller (the reconciler) is not in the repository: it is modelled   *)
(* as calling EnsureProxy or DeleteProxy one at a time for the Gateway,    *)
(* since the workqueue gives a gateway key to a single worker.  The        *)
(* Gateway's listeners may change between calls; the Service renders its   *)
(* ports from the listeners of the Gateway the call was given.            *)
(***************************************************************************)
EXTENDS Naturals, Sequences

CONSTANTS
    ListenerSets, \* the values spec.listeners of the Gateway takes
    NoPorts,      \* no Service, so no ports
    MaxFailures,  \* bound on failed API calls
    MaxCalls      \* bound on calls of EnsureProxy / DeleteProxy

ASSUME ProxyAssumption ==
    /\ ListenerSets # {}
    /\ NoPorts \notin ListenerSets
    /\ MaxFailures \in Nat
    /\ MaxCalls \in Nat

Kinds == {"sa", "cm", "dep", "svc"}

VARIABLES
    exists,     \* kind -> the object named nodeID exists in agentic-net-system
    available,  \* the Deployment has condition Available = True
    svcPorts,   \* the ports of the existing Service (NoPorts if none)
    listeners,  \* the Gateway's current spec.listeners
    pc,         \* "idle", an ensure step, or "delete"
    di,         \* the index in DeleteOrder of DeleteProxy's next Delete
    callGw,     \* the listeners of the Gateway passed to EnsureProxy
    last,       \* <<call, outcome>> of the last call that returned
    failures,   \* failed API calls so far
    calls       \* calls so far

vars == <<exists, available, svcPorts, listeners, pc, di, callGw, last, failures, calls>>

\* Mutant: DeleteProxy removing the Deployment's dependencies first.
DeleteOrderSwapped == <<"sa", "cm", "svc", "dep">>

\* The objects DeleteProxy deletes, in its order.
DeleteOrder == <<"dep", "svc", "cm", "sa">>

Init ==
    /\ exists = [k \in Kinds |-> FALSE]
    /\ available = FALSE
    /\ svcPorts = NoPorts
    /\ listeners \in ListenerSets
    /\ pc = "idle"
    /\ di = 1
    /\ callGw = NoPorts
    /\ last = <<"none", "ok">>
    /\ failures = 0
    /\ calls = 0

-----------------------------------------------------------------------------
(* The reconciler calls EnsureProxy with the Gateway it read. *)
CallEnsure ==
    /\ pc = "idle" /\ calls < MaxCalls
    /\ pc' = "sa" /\ callGw' = listeners /\ calls' = calls + 1
    /\ UNCHANGED <<exists, available, svcPorts, listeners, di, last, failures>>

(* The reconciler calls DeleteProxy once the Gateway is gone. *)
CallDelete ==
    /\ pc = "idle" /\ calls < MaxCalls
    /\ pc' = "delete" /\ di' = 1 /\ calls' = calls + 1
    /\ UNCHANGED <<exists, available, svcPorts, listeners, callGw, last, failures>>

\* Mutant: ensureDeployment that does not wait for the Deployment.
EnsureObjectNoWait(k) ==
    /\ pc = k
    /\ exists' = [exists EXCEPT ![k] = TRUE]
    /\ svcPorts' = IF k = "svc" /\ ~exists["svc"] THEN callGw ELSE svcPorts
    /\ pc' = CASE k = "sa" -> "cm" [] k = "cm" -> "dep"
               [] k = "dep" -> "svc" [] k = "svc" -> "svcwait"
    /\ UNCHANGED <<available, listeners, di, callGw, last, failures, calls>>

(* ensureSA, ensureConfigMap, the Get/Create half of ensureDeployment and  *)
(* of ensureService: Get; on NotFound, Create the rendered object; an     *)
(* object that exists is left unchanged.                                   *)
EnsureObject(k) ==
    /\ pc = k
    /\ exists' = [exists EXCEPT ![k] = TRUE]
    /\ svcPorts' = IF k = "svc" /\ ~exists["svc"] THEN callGw ELSE svcPorts
    /\ pc' = CASE k = "sa" -> "cm" [] k = "cm" -> "dep"
               [] k = "dep" -> "depwait" [] k = "svc" -> "svcwait"
    /\ UNCHANGED <<available, listeners, di, callGw, last, failures, calls>>

(* waitForDeploymentAvailable: a poll finds the Available condition. *)
DeploymentReady ==
    /\ pc = "depwait" /\ available
    /\ pc' = "svc"
    /\ UNCHANGED <<exists, available, svcPorts, listeners, di, callGw, last, failures, calls>>

(* waitForServiceReady: the API server assigns a ClusterIP on create, so  *)
(* the first poll succeeds; EnsureProxy returns the nodeID.               *)
ServiceReady ==
    /\ pc = "svcwait"
    /\ pc' = "idle" /\ last' = <<"ensure", "ok">>
    /\ UNCHANGED <<exists, available, svcPorts, listeners, di, callGw, failures, calls>>

(* DeleteProxy's next Delete; NotFound counts as deleted.  After the     *)
(* last one it returns nil.                                                *)
DeleteObject ==
    LET k == DeleteOrder[di] IN
    /\ pc = "delete"
    /\ exists' = [exists EXCEPT ![k] = FALSE]
    /\ available' = IF k = "dep" THEN FALSE ELSE available
    /\ svcPorts' = IF k = "svc" THEN NoPorts ELSE svcPorts
    /\ IF di = Len(DeleteOrder)
          THEN pc' = "idle" /\ di' = 1 /\ last' = <<"delete", "ok">>
          ELSE di' = di + 1 /\ UNCHANGED <<pc, last>>
    /\ UNCHANGED <<listeners, callGw, failures, calls>>

(* A Get, Create or Delete fails, or a wait times out after a minute: the *)
(* function returns the error and the objects stay as they are.            *)
CallFails ==
    /\ pc # "idle" /\ failures < MaxFailures
    /\ pc' = "idle" /\ failures' = failures + 1
    /\ last' = <<IF pc = "delete" THEN "delete" ELSE "ensure", "err">>
    /\ di' = 1
    /\ UNCHANGED <<exists, available, svcPorts, listeners, callGw, calls>>

-----------------------------------------------------------------------------
(* The Deployment controller starts the proxy pod and the Deployment     *)
(* becomes Available; the pod needs its ServiceAccount and ConfigMap.     *)
DeploymentBecomesAvailable ==
    /\ \A k \in {"dep", "sa", "cm"} : exists[k]
    /\ ~available
    /\ available' = TRUE
    /\ UNCHANGED <<exists, svcPorts, listeners, pc, di, callGw, last, failures, calls>>

(* The Gateway's listeners are edited. *)
GatewayListenersChange(l) ==
    /\ l # listeners /\ calls < MaxCalls
    /\ listeners' = l
    /\ UNCHANGED <<exists, available, svcPorts, pc, di, callGw, last, failures, calls>>

Next ==
    \/ CallEnsure \/ CallDelete
    \/ \E k \in {"sa", "cm", "dep", "svc"} : EnsureObject(k)
    \/ DeploymentReady \/ ServiceReady
    \/ DeleteObject
    \/ CallFails
    \/ DeploymentBecomesAvailable
    \/ \E l \in ListenerSets : GatewayListenersChange(l)

Spec == Init /\ [][Next]_vars

-----------------------------------------------------------------------------
(* The Deployment never exists without the ServiceAccount and ConfigMap  *)
(* its pods mount, whichever API calls of EnsureProxy and DeleteProxy    *)
(* fail and whatever they leave behind: ensure creates them before the    *)
(* Deployment, delete removes the Deployment first.                       *)
DeploymentHasDependencies ==
    exists["dep"] => exists["sa"] /\ exists["cm"]

(* When EnsureProxy has returned the nodeID, the proxy's four objects     *)
(* exist and its Deployment is Available, also when an earlier call left  *)
(* some of them behind or half deleted.                                   *)
EnsureSucceededReady ==
    pc = "idle" /\ last = <<"ensure", "ok">> =>
        (\A k \in Kinds : exists[k]) /\ available
=============================================================================
