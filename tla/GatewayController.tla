--------------------------- MODULE GatewayController ---------------------------
(***************************************************************************)
(* The reconcile loop of pkg/controller: the informer event handlers that  *)
(* turn Gateway and HTTPRoute changes into gateway keys on the rate-       *)
(* limited workqueue (the Backend and AccessPolicy handlers call enqueue   *)
(* functions that are still empty), and the workers of Run/runWorker/      *)
(* processNextWorkItem that take a key, run syncHandler and mark it Done.  *)
(*                                                                         *)
(* The repository holds two revisions of the HTTPRoute handlers: the one   *)
(* in unnamed/part_000 enqueues the Gateways of the route's parentRefs     *)
(* (enqueueGatewaysForHTTPRoute), the one in pkg/controller/httproute.go   *)
(* calls an empty enqueueHTTPRoute.  RouteHandlerEnqueues selects one.     *)
(*                                                                         *)
(* The workqueue is client-go's: a FIFO of keys, a dirty set (keys added   *)
(* since they were last handed out) and a processing set (keys a worker   *)
(* holds).  A key added while it is processing is only marked dirty and  *)
(* re-queued by Done.                                                     *)
(*                                                                         *)
(* pendingGw and pendingDep are observation variables: the gateways with  *)
(* a change in their own object or in a route attached to them          *)
(* (pendingGw), or in a Backend or AccessPolicy they use (pendingDep),    *)
(* that no sync has read since.                                           *)
(***************************************************************************)
EXTENDS Naturals, Sequences, FiniteSets, SequencesExt

CONSTANTS
    Gateways,      \* gateway keys namespace/name
    OtherRef,      \* a parentRef of another group or kind than Gateway
    Routes,        \* HTTPRoutes
    Backends,      \* Backends referenced by routes
    Policies,      \* AccessPolicies
    RouteBackends, \* route -> the Backends its rules reference
    PolicyTarget,  \* policy -> the Backend it targets
    Workers,       \* worker goroutines started by Run
    Absent,        \* the lister has no such Gateway
    MaxGen,        \* bound on the generations a Gateway goes through
    MaxEvents,     \* bound on informer events
    RouteHandlerEnqueues \* TRUE: part_000 revision, FALSE: httproute.go

ASSUME ControllerAssumption ==
    /\ Gateways # {} /\ IsFiniteSet(Gateways)
    /\ OtherRef \notin Gateways
    /\ RouteBackends \in [Routes -> SUBSET Backends]
    /\ PolicyTarget \in [Policies -> Backends]
    /\ Absent \notin Nat \cup Gateways
    /\ MaxGen \in Nat \ {0}
    /\ MaxEvents \in Nat
    /\ RouteHandlerEnqueues \in BOOLEAN

Refs == Gateways \cup {OtherRef}

GwStates == {Absent} \cup 1..MaxGen
NoKey == CHOOSE k \in Gateways : TRUE

VARIABLES
    gw,          \* Gateway lister: key -> generation or Absent
    parents,     \* HTTPRoute lister: route -> its spec.parentRefs
    queue,       \* workqueue FIFO
    dirty,       \* workqueue dirty set
    processing,  \* workqueue processing set
    wpc,         \* worker -> "get" | "sync" | "done"
    wkey,        \* worker -> the key it holds
    pendingGw,   \* observation: gateways with an unread own/route change
    pendingDep,  \* observation: gateways with an unread backend/policy change
    events       \* informer events so far

qVars == <<queue, dirty, processing>>
vars == <<gw, parents, qVars, wpc, wkey, pendingGw, pendingDep, events>>

-----------------------------------------------------------------------------
(* workqueue.Add, called for each key of a set in Go map order: a key     *)
(* already dirty is dropped, a key being processed is only marked dirty,  *)
(* any other key is marked dirty and queued.                              *)
AddKeys(ks) ==
    /\ dirty' = dirty \cup ks
    /\ \E order \in SetToSeqs(ks \ (dirty \cup processing)) : queue' = queue \o order
    /\ UNCHANGED processing

(* enqueueGatewaysForHTTPRoute: the keys of the parentRefs of group       *)
(* gateway.networking.k8s.io and kind Gateway (the namespace defaults to  *)
(* the route's own); other refs are skipped.                              *)
GatewaysOf(refs) == refs \cap Gateways

\* The gateways that serve a Backend through some route.
UsersOf(b) ==
    {k \in Gateways : \E r \in Routes : b \in RouteBackends[r] /\ k \in parents[r]}

Init ==
    /\ gw \in [Gateways -> GwStates]
    /\ parents \in [Routes -> SUBSET Refs]
    /\ queue = <<>>
    /\ dirty = {}
    /\ processing = {}
    /\ wpc = [w \in Workers |-> "get"]
    /\ wkey = [w \in Workers |-> NoKey]
    /\ pendingGw = {}
    /\ pendingDep = {}
    /\ events = 0

-----------------------------------------------------------------------------
(* Gateway AddFunc / UpdateFunc / DeleteFunc: the lister changes and the  *)
(* object's key (DeletionHandlingMetaNamespaceKeyFunc) is added.           *)
GatewayEvent(k, g) ==
    /\ events < MaxEvents
    /\ g # gw[k]
    /\ events' = events + 1
    /\ gw' = [gw EXCEPT ![k] = g]
    /\ AddKeys({k})
    /\ pendingGw' = pendingGw \cup {k}
    /\ UNCHANGED <<parents, wpc, wkey, pendingDep>>

(* addHTTPRoute / updateHTTPRoute / deleteHTTPRoute: the route's parentRefs *)
(* change from old to new (add: old = {}, delete: new = {}); the update     *)
(* handler passes old and new parentRefs together.  The Gateways of both   *)
(* are affected; only the part_000 revision enqueues them.                 *)
RouteEvent(r, new) ==
    /\ events < MaxEvents
    /\ new # parents[r]
    /\ events' = events + 1
    /\ parents' = [parents EXCEPT ![r] = new]
    /\ pendingGw' = pendingGw \cup GatewaysOf(parents[r] \cup new)
    /\ IF RouteHandlerEnqueues
          THEN AddKeys(GatewaysOf(parents[r] \cup new))
          ELSE UNCHANGED qVars
    /\ UNCHANGED <<gw, wpc, wkey, pendingDep>>

(* addBackend / updateBackend / deleteBackend: enqueueBackend is empty,    *)
(* so nothing is queued for the gateways that use the Backend.             *)
BackendEvent(b) ==
    /\ events < MaxEvents
    /\ events' = events + 1
    /\ pendingDep' = pendingDep \cup UsersOf(b)
    /\ UNCHANGED <<gw, parents, qVars, wpc, wkey, pendingGw>>

(* add/update/deleteAccessPolicy: enqueueAccessPolicy is empty too. *)
AccessPolicyEvent(p) ==
    /\ events < MaxEvents
    /\ events' = events + 1
    /\ pendingDep' = pendingDep \cup UsersOf(PolicyTarget[p])
    /\ UNCHANGED <<gw, parents, qVars, wpc, wkey, pendingGw>>

-----------------------------------------------------------------------------
\* Mutant: Get that leaves the key marked dirty.
WorkerGetKeepDirty(w) ==
    /\ wpc[w] = "get"
    /\ queue # <<>>
    /\ wkey' = [wkey EXCEPT ![w] = Head(queue)]
    /\ queue' = Tail(queue)
    /\ processing' = processing \cup {Head(queue)}
    /\ UNCHANGED dirty
    /\ wpc' = [wpc EXCEPT ![w] = "sync"]
    /\ UNCHANGED <<gw, parents, pendingGw, pendingDep, events>>

(* processNextWorkItem: gatewayqueue.Get() blocks until a key is queued,  *)
(* moves it from dirty to processing.                                      *)
WorkerGet(w) ==
    /\ wpc[w] = "get"
    /\ queue # <<>>
    /\ wkey' = [wkey EXCEPT ![w] = Head(queue)]
    /\ queue' = Tail(queue)
    /\ processing' = processing \cup {Head(queue)}
    /\ dirty' = dirty \ {Head(queue)}
    /\ wpc' = [wpc EXCEPT ![w] = "sync"]
    /\ UNCHANGED <<gw, parents, pendingGw, pendingDep, events>>

(* syncHandler: the key splits, the lister Get either finds the Gateway or *)
(* reports it deleted; both return nil.  A lister backed by the informer   *)
(* cache returns no other error, so the AddRateLimited branch is never     *)
(* taken.  This is the point where the sync reads the cluster state.       *)
WorkerSync(w) ==
    /\ wpc[w] = "sync"
    /\ pendingGw' = pendingGw \ {wkey[w]}
    /\ pendingDep' = pendingDep \ {wkey[w]}
    /\ wpc' = [wpc EXCEPT ![w] = "done"]
    /\ UNCHANGED <<gw, parents, qVars, wkey, events>>

\* Mutant: Done that forgets to re-queue a key dirtied while processing.
WorkerDoneNoRequeue(w) ==
    LET k == wkey[w] IN
    /\ wpc[w] = "done"
    /\ processing' = processing \ {k}
    /\ wpc' = [wpc EXCEPT ![w] = "get"]
    /\ wkey' = [wkey EXCEPT ![w] = NoKey]
    /\ UNCHANGED <<gw, parents, queue, dirty, pendingGw, pendingDep, events>>

(* Forget(key), then the deferred Done(key): a key dirtied while it was  *)
(* processing goes back on the queue.                                     *)
WorkerDone(w) ==
    LET k == wkey[w] IN
    /\ wpc[w] = "done"
    /\ processing' = processing \ {k}
    /\ queue' = IF k \in dirty THEN Append(queue, k) ELSE queue
    /\ wpc' = [wpc EXCEPT ![w] = "get"]
    /\ wkey' = [wkey EXCEPT ![w] = NoKey]
    /\ UNCHANGED <<gw, parents, dirty, pendingGw, pendingDep, events>>

-----------------------------------------------------------------------------
Next ==
    \/ \E k \in Gateways, g \in GwStates : GatewayEvent(k, g)
    \/ \E r \in Routes, new \in SUBSET Refs : RouteEvent(r, new)
    \/ \E b \in Backends : BackendEvent(b)
    \/ \E p \in Policies : AccessPolicyEvent(p)
    \/ \E w \in Workers : WorkerGet(w) \/ WorkerSync(w) \/ WorkerDone(w)

(* Run starts the workers with wait.UntilWithContext; they loop on the   *)
(* queue for as long as the process lives.  Events are the environment.  *)
Fairness ==
    \A w \in Workers :
        WF_vars(WorkerGet(w)) /\ WF_vars(WorkerSync(w)) /\ WF_vars(WorkerDone(w))

Spec == Init /\ [][Next]_vars
FairSpec == Spec /\ Fairness

-----------------------------------------------------------------------------
TypeOK ==
    /\ gw \in [Gateways -> GwStates]
    /\ parents \in [Routes -> SUBSET Refs]
    /\ queue \in Seq(Gateways)
    /\ dirty \subseteq Gateways
    /\ processing \subseteq Gateways
    /\ wpc \in [Workers -> {"get", "sync", "done"}]
    /\ wkey \in [Workers -> Gateways]
    /\ pendingGw \subseteq Gateways
    /\ pendingDep \subseteq Gateways
    /\ events \in 0..MaxEvents

(* Auxiliary invariant of the proofs (GatewayControllerProofs): no       *)
(* gateway key is held by two workers at once.  QueueSpec implies it.     *)
NoConcurrentSync ==
    \A w1, w2 \in Workers :
        w1 # w2 /\ wpc[w1] # "get" /\ wpc[w2] # "get" => wkey[w1] # wkey[w2]

(* Every change to a Gateway object, or to an HTTPRoute whose parentRefs  *)
(* named it before or after the change, is eventually read by a sync of   *)
(* that gateway, however the change interleaves with a worker already     *)
(* holding the key (Add while processing, then Done re-queues).           *)
GatewayChangesSynced ==
    \A k \in Gateways : k \in pendingGw ~> k \notin pendingGw

(* Every change to a Backend or AccessPolicy a gateway uses is eventually *)
(* read by a sync of that gateway (spec section 2: a changed Backend,     *)
(* AuthPolicy, Gateway or Route re-runs the compilers for the affected    *)
(* proxy).                                                                *)
DependencyChangesSynced ==
    \A k \in Gateways : k \in pendingDep ~> k \notin pendingDep

-----------------------------------------------------------------------------
(* Refinement mapping onto WorkQueue: the pending keys are the dirty set, *)
(* and a worker between Get and Done owns its key.                        *)
owner == [w \in Workers |-> IF wpc[w] = "get" THEN Absent ELSE wkey[w]]

WQ == INSTANCE WorkQueue WITH Keys <- Gateways, None <- Absent,
                              pending <- dirty, owner <- owner

(* The controller uses its queue only as client-go's workqueue promises:  *)
(* every Gateway or route event is an Add of the affected keys, a worker  *)
(* is handed only a key added since it was last handed out and held by   *)
(* no other worker, and releases it with Done.  This relates the FIFO,    *)
(* dirty and processing sets of the implementation with the handler and  *)
(* worker steps across every interleaving.                                *)
QueueSpec == WQ!Spec
=============================================================================
