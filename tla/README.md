# TLA+ models of kube-agentic-networking

This directory is the formal model of the controller in `src/`. It holds TLA+ modules for its
concurrent and failure-prone parts, TLC configurations that check them on small instances,
and TLAPS proofs of the main safety properties for every instance. `PROJECT.json` lists
every component, run, mutant, finding, hazard and theorem. Its `map` names the source lines
that each definition models.

## The system and how its parts interact

The controller watches Gateway API and agentic objects through shared informers. The
factories that `main.go` builds (143-145, resync every 60 s) feed the translator. The
controller's own informers are built by the caller of `controller.New`, which is not in
the repository, so nothing says whether they resync.

- **Gateway changes.** Gateway and HTTPRoute events put Gateway keys on a client-go
  workqueue. Workers take keys off it and sync them (`controller.go`, `part_005`,
  `part_000`, `httproute.go`).
- **Backend and AccessPolicy changes.** These should do the same, but their enqueue
  functions are empty (`part_004`, `accesspolicy.go`).
- **GatewayClass status.** GatewayClass events call `syncGatewayClass` directly. It writes
  the Accepted status with UpdateStatus (`part_001`).
- **Compilers.** A sync compiles Envoy configuration:
  - clusters from a route's backendRefs (`part_006`);
  - an RBAC filter from the AuthPolicy of each Backend (`authPolicy.go`).
- **Publishing.** The result is published to the xDS server's snapshot cache by
  `UpdateXDSServer`. This shares one version counter among all callers
  (`accesspolicy.go` 108-198).
- **Proxies.** Each Gateway gets an Envoy proxy made of a ServiceAccount, a ConfigMap, a
  Deployment and a Service. EnsureProxy creates them and DeleteProxy removes them
  (`proxy.go`).
- **Discovery address.** Proxies reach the xDS server at the address that
  `getControlPlaneAddress` chooses.

## Modules

| Module | Models | State | Actions |
|---|---|---|---|
| `XdsServer` | the version counter, the snapshot cache, concurrent `UpdateXDSServer` calls, controller restarts and proxy streams | `version`, `cache`, per-worker `pc/target/res/ver`, per-node `stream/reqv/inflight/applied` | `StartPublish`, `AddVersion` (`Add(1)`), `LoadVersion` (the separate `Load()`), `CommitSnapshot` (NewSnapshot + SetSnapshot, which answers parked watches through `RespondWatch`), `Restart` (NewServer), `Connect`, `Request`, `Deliver`, `Disconnect` |
| `SnapshotStore` | what the counter and cache promise (spec sections 3 and 8; abstract, no proxies) | `counter`, `store` (node to snapshot) | `Issue`, `Publish(n, s)` (to an issued version above the node's own), `Reset` |
| `GatewayController` | the informer handlers and the workqueue | the listers `gw` and `parents`; `queue`, `dirty`, `processing` (client-go's queue); each worker's step and key | `GatewayEvent`, `RouteEvent` (the constant `RouteHandlerEnqueues` chooses the `part_000` revision or the empty `httproute.go` one), `BackendEvent`, `AccessPolicyEvent`, `WorkerGet`, `WorkerSync`, `WorkerDone` |
| `WorkQueue` | the contract of client-go's workqueue that the controller relies on (abstract; client-go is not in `src/`) | `pending` (keys added since last handed out), `owner` (the key each worker holds) | `Add`, `Get`, `Done` |
| `GatewayClassSync` | the GatewayClass status loop | the API object (generation, resourceVersion, observedGeneration), the watch stream, the informer cache, queued handler calls, and the observation `lost` (the last status write failed and nothing has written the class since) | `Deliver`, `Resync`, `SyncGatewayClass` (lister Get, controllerName check, optimistic UpdateStatus), `SyncUpdateFails`, plus user `EditSpec` and `DeleteOrCreate` |
| `RbacCompiler` | `rbacConfigFromAuthPolicy` and Envoy's RBAC evaluation of its output | the AuthPolicy lister and the outputs compiled so far | `Compile` |
| `ClusterCompiler` | `fetchBackend`, `convertBackendToCluster`, `buildClustersFromBackends` (composed per backendRef as spec 4.2 says; no caller in the repository composes them) | the Backend, Service and ReferenceGrant listers, the refs and the result | `Compile` |
| `ProxyLifecycle` | `EnsureProxy` / `DeleteProxy` step by step, with failures and waits | which objects exist, Deployment availability, Service ports, call progress | `CallEnsure`, `EnsureObject(k)`, `DeploymentReady`, `ServiceReady`, `CallDelete`, `DeleteObject`, `CallFails`, plus the environment's `DeploymentBecomesAvailable` and `GatewayListenersChange` |
| `ControlPlaneAddress` | `getControlPlaneAddress` | the interfaces in kernel order, and the result | `Select`: any order that `sort.Slice` can leave, then the two filter loops |

### Abstractions

- **Names and payloads.** These are model values. The one exception is cluster names,
  which are character sequences so that `"%s-%s"` is real concatenation.
- **Lister order.** `List` returns items in an order the model leaves open.
- **Go map iteration.** The order is open as well (`SetToSeqs`).
- **Interface names.** Go's string `<` is the position of the name in a lexicographically
  sorted constant.
- **Code outside `src/`.** Some code the controller relies on is not in `src/`: the serving
  side of go-control-plane, Envoy's RBAC matching, `isCrossNamespaceRefAllowed`, the API
  server's UpdateStatus, and the Deployment controller. These are modelled from the spec
  and marked `spec_modelled`.

## Runs

Runs marked "pass" must finish with no error. Runs marked "violation" check one claim of
the spec or the code's documentation, and TLC refutes it.

| Run (cfg) | Checks | Result and meaning |
|---|---|---|
| `MCXdsServer.cfg` | ParkedWatchCurrent, Converges, StoreSpec | pass: with no restart, every parked watch waits on the node's current snapshot, the counter and cache refine `SnapshotStore`, and under fairness every connected proxy ends up on its node's latest snapshot |
| `MCXdsServerRestart.cfg` | TypeOK, PerNodeVersionIncreasing | pass: holds across one restart |
| `MCXdsServerVersionRace.cfg` | VersionTokensUnique | violation: `Add(1)` and then `Load()` give two snapshots one token |
| `MCGatewayController.cfg` | GatewayChangesSynced, QueueSpec | pass: with the `part_000` route handlers, every change is eventually synced, also when it lands while a worker holds the key, and the controller implements the abstract `WorkQueue` (which hands a key to one worker at a time) |
| `MCGatewayControllerDeps.cfg` | DependencyChangesSynced | violation: Backend and AccessPolicy changes are never synced |
| `MCGatewayClassSync.cfg` | AcceptedUnlessWriteLost, ObservedGenerationCurrent | pass: without any resync, a Conflict from a stale lister copy heals through the watch event that made the copy stale, so the class ends up Accepted unless its last UpdateStatus failed and was only logged; and a status write that lands never stamps a generation older than the object's |
| `MCRbacCompiler.cfg` | AuthorizationAsSpecified | pass: with up to two AuthPolicies per Backend, every compiled filter is built from one candidate policy whole (spec 9: the first match wins), never allows a request the spec and the Source doc deny for it, and allows every request granted by the baseline or by a rule naming the caller. Rules with an omitted Source are the run below |
| `MCRbacCompilerOmitted.cfg` | OmittedSourceMatchesAnyone | violation: an empty Source denies everyone |
| `MCProxyLifecycle.cfg` | DeploymentHasDependencies, EnsureSucceededReady | pass: holds through any failed call |
| `MCClusterCompiler.cfg` | ClustersAsSpecified | pass: clusters as in spec 4.2 |
| `MCClusterCompilerGrant.cfg` | CrossNamespaceNeedsBackendGrant | violation: the grant is checked for kind Service |
| `MCControlPlaneAddress.cfg` | AddressAsSpecified | pass: the choice does not depend on the kernel's interface order |

Further defects read from the code have no run of their own. The hazards of
`PROJECT.json` describe each one:
- **Restart stale token.** After a restart the version counter starts again, so a proxy
  that reports an old token can be parked on a snapshot it does not have.
- **Empty route enqueue.** The `httproute.go` revision's `enqueueHTTPRoute` is empty (a
  TODO). The model has it (`RouteHandlerEnqueues = FALSE`), but no run checks it: both
  `GatewayController` configurations use the `part_000` handlers.
- **Lost status write.** A failed `UpdateStatus` of the GatewayClass is only logged. No
  run asks for `<>[]Accepted` outright: without a resync it fails whenever the last
  write fails, which `AcceptedUnlessWriteLost` states as its one exception.
- **Proxy name collision.** `proxyName` keeps 48 bits of a SHA-256; two Gateways with
  equal prefixes would share one proxy. A few model values cannot produce this.
- **Stale Service ports.** `ensureService` never updates an existing Service.
- **Cluster name collision.** Backend `a-a` in namespace `a` and Backend `a` in namespace
  `a-a` both get the cluster name `a-a-a`.

Every property of a passing run has a mutant in `PROJECT.json`: an operator defined just
before the mapped definition, modelling a plausible bug, under which TLC finds that
property violated.

### Refinement

`GatewayController` implements `WorkQueue`. The mapping sends `pending` to the
controller's `dirty` set and `owner` to the key each worker holds between `Get` and its
`Done` (`owner` in `GatewayController`, `processNextWorkItem` lines 172-177). `QueueSpec`
is `WQ!Spec` under this mapping. The gw_queue run checks it as a property, and
`ImplementsWorkQueue` proves it. Event handlers map to `Add`, `WorkerGet` to `Get`,
`WorkerDone` to `Done`, and `WorkerSync` and lister edits without an enqueue to stutters.
The mutant that leaves the key dirty on `Get` breaks the refinement.

`XdsServer` implements `SnapshotStore`. The mapping sends `counter` to `version` and
`store` to `cache`, and `StoreSpec` is `Store!Spec` under it. `AddVersion` maps to
`Issue`, `CommitSnapshot` of a well-formed snapshot to `Publish(target, [ver, res])`, a
malformed one (an error return before `SetSnapshot`) to a stutter, `Restart` to `Reset`,
and every other step to a stutter. `SnapshotStore` says nothing about tokens being
unique across nodes, which the code does not keep (run `xds_version_race`). The run
`xds_parked` checks `StoreSpec`, and `ImplementsSnapshotStore` proves it, restarts
included. The mutant that leaves out the `Add(1)`, so that the worker publishes the
current value, breaks it: a node may then be handed a version the counter never issued, or one it already holds.

### Bounds

- **xDS runs:** 2 nodes, 2 concurrent publishers, 2 configs, a version bound and at most
  one restart. Two publishers for two nodes is the least that exercises the Add/Load race,
  parked watches and a restart that reuses a token.
- **Controller runs:** 2 gateways, one route, 2 workers and up to 5 events. This is enough
  for a key to be added while another worker holds it.
- **GatewayClass run:** up to 3 edits and 2 failed updates. These reach a failure, a
  conflict with a stale cache, and a delete with re-create.
- **Compilers:** two identities, two tools and up to two rules or refs. For RBAC,
  up to two AuthPolicies, so that two can compete for one Backend. For the clusters,
  two labels `a` and `a-a`, so that names can collide.
- **Proxy runs:** 4 calls and 2 failures. This covers a failure at every step followed by
  a call that repairs it.
- **Address run:** 2 interfaces with 2 addresses each, over 4 names. Every pair of
  comparator cases and every filter case appears.

Runs that end when the bounded inputs are used up set `CHECK_DEADLOCK FALSE`.

### Fairness

The fairness assumptions follow from what the code keeps running:
- **Gateway workers** are `wait.UntilWithContext` loops. They keep taking keys, so their
  steps are weakly fair.
- **xDS serving** is the go-control-plane serving loops and Envoy's reconnect loop.
- **GatewayClass loop:** the informer's watch delivery and its handler goroutine are
  weakly fair. A resync is not: the controller's informer factory is built outside the
  repository, so `Resync` is a step the environment may take, never one it must take.

Users, failures and restarts are never forced to happen.

## Proofs (TLAPS)

- **`XdsServerProofs`** proves `TypeCorrect` (`Spec => []TypeOK`).
  - The inductive invariant is `IInv == TypeOK /\ PubInv /\ RespInv`.
  - `PubInv` says that a worker past its `Add` sees a positive counter, and past its
    `Load` holds a positive version.
  - `RespInv` says that a stream in state "resp" has a response in flight.
  - Without these, the counter and the in-flight response are not known to be typed after
    a step.
- **`XdsServerProofs`** also proves `VersionIncreasesPerNode` (`Spec => PerNodeVersionIncreasing`)
  and `ParkedWatchCurrentWithoutRestart` (`ASSUME MaxRestarts = 0 PROVE Spec => []ParkedWatchCurrent`).
  - Both rest on `HInv`, which is `IInv /\ WatchVersionCurrent` strengthened by three facts.
    `WatchVersionCurrent` (a parked watch reports the cached token) is only an auxiliary
    invariant: it follows from go-control-plane's Request and RespondWatch guards, not
    from the repository's code, so no run checks it as a property.
  - `OnePublisherPerNode`: two workers past `StartPublish` never target the same node.
    `UpdateXDSServer` is serialised per Gateway, and a node is one Gateway.
  - `PubOrder`: no cached version exceeds the counter. A worker at `Load` targets a node
    whose cached version is below the counter. A worker at `Commit` holds a version above
    the node's cached one, and no higher than the counter.
  - `ProxyHist`: a stream in "req" or "watch" asks with the version of what its proxy
    applied. Without restarts, what the proxy applied and what is in flight are never
    ahead of the cache (`Behind`). A snapshot with the same version as the cached one is
    the cached one.
  - With `PubOrder`, every commit replaces the cached snapshot by a larger version. This
    is the action property.
  - With `ProxyHist`, a watch parked at the proxy's version cannot be behind the cache.
  - The hypothesis `MaxRestarts = 0` is needed. After `Restart` the counter and the cache
    start again from nothing while proxies keep what they applied. `ParkedWatchCurrent`
    then fails, which is why the run `xds_parked` has no restarts.
- **`XdsServerProofs`** also proves `ImplementsSnapshotStore` (`Spec => StoreSpec`), for
  every instance of the constants and with restarts.
  - `InitRefinesStore`: the initial state maps to `Store!Init`.
  - `NextRefinesStore`: under `HInv`, each step maps to a `Store!Next` step or a stutter
    of `<<version, cache>>`, one case per action.
  - The `Publish` case needs `PubOrder`. A worker at `Commit` holds a version above its
    node's cached one and no higher than the counter, so the version is issued
    (`1..counter`) and above the node's `ActiveVersion` (`ActiveIsCached`).
  - TLC checks the refinement on the restart-free run only, because the restart run
    with it takes over three minutes. The theorem covers restarts.
- **`ControlPlaneAddressProofs`** proves `AddressChosenAsSpecified` (`Spec => []AddressAsSpecified`).
  - The theorem holds for every host: any number of interfaces and addresses, any kernel
    order, and any order the unstable `sort.Slice` may leave.
  - `SortedFacts`: an order `sort.Slice` leaves holds the same interfaces, in strictly
    increasing rank.
    - On distinct names, the comparator `Less` agrees with the spec's `Rank` (`RankOrder`).
    - The permutation is onto (`PermOnto`, from `FS_Injection` on `1..n`).
  - `ScanFindsBest`: the two loops return `Expected`, the spec's choice.
    - The first interface with a usable address has the least rank among usable
      interfaces, and its first usable address is the least such index.
    - Both minima come from `NatMin`. `NatMin` is derived from the well-foundedness of
      `<` on `Nat` (`WFMin`).
  - The proof uses the module's assumption: docker0 and eth0 are among `Names`, which
    lists the names in Go's (lexicographic, total) string order.
- **`RbacCompilerProofs`** proves `AuthorizationCompiledAsSpecified` (`Spec => []AuthorizationAsSpecified`).
  - The theorem holds for any number of AuthPolicies, rules, identities and tools; the
    run `rbac_spec` checks only one identity, one tool and two rules.
  - `SessionMatch`, `InitMatch` and `RuleMatch` work one policy at a time. The
    session-close policy admits exactly a DELETE with a session id. The init/list policy
    admits a GET or a handshake or listing method. A rule's policy admits a tools/call of
    one of its tools by one of its sources, and a rule with no sources or no tools
    admits nothing.
  - `SpecAllowed` reads a rule's Source as the doc comment of the Source type does: an
    omitted Source matches any caller. The compiled filter matches nobody for it (the
    run `rbac_omitted`), so the theorem states the two directions that hold: the filter
    never allows what `SpecAllowed` denies (`NamedWithinSpec`), and it allows everything
    granted by the baseline or by a rule that names the caller.
  - `PolicyMap`: the map holds both built-in policies and one policy per rule. Rule names
    have two components and never collide with the built-in names.
  - `FilterAsSpecified` combines these: the ALLOW filter admits the union, which is
    `NamedSourceAllowed`.
  - The inductive invariant says that every compiled entry is `RbacConfig` of a policy
    `findAuthPolicyForBackend` can return. The lister never changes, so that policy stays
    a candidate.
  - The model writes the built-in policies with an explicit override, `WriteBuiltIns`,
    and not with TLC's `:>` and `@@`, which the prover cannot expand.
- **`ClusterCompilerProofs`** proves `ClustersCompiledAsSpecified` (`Spec => []ClustersAsSpecified`).
  - The theorem holds for any listers and routes.
  - `RefCorrect` takes the branches of `fetchBackend` in order: invalid kind, missing
    grant, missing Backend, missing Service, success. The first four give an error. On
    success, `convertBackendToCluster` builds the name, type, endpoint and SNI that the
    spec asks for.
  - `BuildFrame` shows that the output depends only on the listers and the refs, so it
    is unchanged by a stutter.
  - `fetchBackend`'s early returns are modelled as an IF/ELSE IF chain. A TLA+ CASE with
    overlapping guards may take any true arm, while the code takes the first.
- **`GatewayControllerProofs`** proves `ImplementsWorkQueue` (`Spec => QueueSpec`).
  - Its inductive invariant is `TypeOK /\ QInv /\ NoConcurrentSync`. `QInv` states the
    invariants of client-go's queue: queued keys are dirty and not processing, the queue
    has no duplicates, and `processing` is exactly the set of keys workers hold.
  - With it, the key a worker takes is dirty and not held, so the step is the abstract
    `Get`; each handler step is an `Add` of the keys it enqueues; `WorkerDone` is `Done`.
  - `NoConcurrentSync` (no key held by two workers) is only an auxiliary invariant: the
    abstract queue hands out only keys no worker owns, so `QueueSpec` implies it.
- **`GatewayClassSyncProofs`** proves `GenerationStampedCurrent`
  (`Spec => ObservedGenerationCurrent`).
  - `HistInv` relates the cache and the watch stream to the API object: neither is ahead
    of the object's resourceVersion, and a copy with the object's resourceVersion equals
    the object. A deleted object has observedGeneration 0.
  - With it, a write that passes the resourceVersion check was made from a copy equal to
    the object, so the generation it stamps is the current one.
- **`ProxyLifecycleProofs`** proves `DependenciesAlwaysPresent` and `EnsureReturnsReady`.
  - `EnsureOrder` states what EnsureProxy has created before each of its steps, and
    `DeleteProgress` that DeleteProxy's first delete removed the Deployment.
  - Neither property is inductive alone: creating the Deployment is safe only because
    the ServiceAccount and ConfigMap were created first, and deleting those only because
    the Deployment is gone.
- Each invariant proof has the form `Init => IInv`, `IInv /\ [Next]_vars => IInv'` (one step per
  action), and then `PTL`. The two refinement proofs map `Init` and each step under the
  inductive invariant, and then `PTL`.
- The proofs assume only the constant assumptions of their modules (`ConstAssumption`,
  `ControllerAssumption`, `ProxyAssumption`, `SyncAssumption`, `AddressAssumption`, `RbacAssumption`,
  `ClusterAssumption`). The
  only other hypothesis is `MaxRestarts = 0` in `ParkedWatchCurrentWithoutRestart`.

### Checked only by TLC

- **Liveness.** Converges, GatewayChangesSynced and AcceptedUnlessWriteLost are the only
  properties of the passing runs with no theorem. Every safety invariant and action
  property that a passing run checks is proved. Liveness under fairness, with ENABLED,
  is out of the prover's reach.
- **`ParkedWatchCurrent` with restarts** is false (see above). Only the
  restart-free case is proved and run.

## Not modelled

- **Rendering.** Bootstrap and resource rendering (`render.go`, most of `resources.go`) is
  text formatting.
- **CLI and I/O.** The CLI, the static bootstrap and `deployEnvoy` (`main.go`) are process
  and kubectl I/O.
- **Issuer discovery.** `GetK8sIssuer` (`part_002`) is one HTTP call.
- **No behaviour.** Build files, API type declarations and the quick-start text have none.
