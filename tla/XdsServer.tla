------------------------------ MODULE XdsServer ------------------------------
(***************************************************************************)
(* The configuration distribution server of pkg/infra/xds (its source is  *)
(* kept in src/pkg/controller/accesspolicy.go): the process-wide version   *)
(* counter, the snapshot cache keyed by proxy node id, the goroutines that *)
(* call UpdateXDSServer concurrently, and the proxies that hold a          *)
(* discovery stream open on the cache.                                     *)
(*                                                                         *)
(* A publish is the four steps of UpdateXDSServer: the call, the           *)
(* s.version.Add(1), the separate s.version.Load(), and NewSnapshot +      *)
(* SetSnapshot (which also answers the open watches of that node).  The    *)
(* serving side follows the snapshot-cache contract of the spec (4.3): a   *)
(* new stream is answered at once when a snapshot exists, a later request  *)
(* is answered when the cached version token differs from the one the      *)
(* proxy reports, otherwise the watch is parked until SetSnapshot.         *)
(***************************************************************************)
EXTENDS Naturals

CONSTANTS
    Nodes,       \* proxy node ids (proxyName of a Gateway)
    Workers,     \* goroutines that may call UpdateXDSServer at once
    Configs,     \* well-formed resource sets a caller may hand over
    Malformed,   \* a resource set NewSnapshot rejects
    NoSnapshot,  \* no snapshot cached / nothing applied / nothing in flight
    MaxVersion,  \* bound on the version counter (a uint64 in the code)
    MaxRestarts  \* bound on controller process restarts

ASSUME ConstAssumption ==
    /\ MaxVersion \in Nat \ {0}
    /\ MaxRestarts \in Nat
    /\ Malformed \notin Configs
    /\ Nodes # {}
    /\ NoSnapshot \notin [ver : 1..MaxVersion, res : Configs]

VARIABLES
    version,   \* Server.version, the atomic.Uint64 shared by all publishes
    cache,     \* the SnapshotCache: node -> last committed snapshot
    pc,        \* worker -> where it is inside UpdateXDSServer
    target,    \* worker -> the nodeid argument
    res,       \* worker -> the resources argument
    ver,       \* worker -> the local variable version after Load()
    stream,    \* node -> state of the proxy's discovery stream
    firstReq,  \* node -> the next request is the first one on its stream
    reqv,      \* node -> version_info the proxy reports (0 = none)
    inflight,  \* node -> response sent by the server, not yet applied
    applied,   \* node -> snapshot the proxy is running with
    restarts   \* number of controller restarts so far

pubVars   == <<pc, target, res, ver>>
proxyVars == <<stream, firstReq, reqv, inflight, applied>>
vars == <<version, cache, pubVars, proxyVars, restarts>>

Versions  == 0..MaxVersion
Snapshots == [ver : 1..MaxVersion, res : Configs]
Resources == Configs \cup {Malformed}
PCs       == {"idle", "add", "load", "commit"}
StreamStates == {"down", "req", "watch", "resp"}

\* Version token a proxy reports for what it runs ("" is 0).
VersionOf(s) == IF s = NoSnapshot THEN 0 ELSE s.ver

-----------------------------------------------------------------------------
\* The arguments and locals of a worker outside UpdateXDSServer.
NoNode == CHOOSE n \in Nodes : TRUE

(* NewServer: an empty cache and a zero counter; no proxy connected yet.   *)
Init ==
    /\ version = 0
    /\ cache = [n \in Nodes |-> NoSnapshot]
    /\ pc = [w \in Workers |-> "idle"]
    /\ target = [w \in Workers |-> NoNode]
    /\ res = [w \in Workers |-> Malformed]
    /\ ver = [w \in Workers |-> 0]
    /\ stream = [n \in Nodes |-> "down"]
    /\ firstReq = [n \in Nodes |-> FALSE]
    /\ reqv = [n \in Nodes |-> 0]
    /\ inflight = [n \in Nodes |-> NoSnapshot]
    /\ applied = [n \in Nodes |-> NoSnapshot]
    /\ restarts = 0

\* Mutant: a publish that does not wait for another publish to the same node.
StartPublishUnguarded(w, n, r) ==
    /\ pc[w] = "idle"
    /\ pc' = [pc EXCEPT ![w] = "add"]
    /\ target' = [target EXCEPT ![w] = n]
    /\ res' = [res EXCEPT ![w] = r]
    /\ UNCHANGED <<version, cache, ver, proxyVars, restarts>>

(* A caller enters UpdateXDSServer(nodeid, resources).  Callers publish   *)
(* for one node at a time: the gateway workqueue never hands the same key *)
(* to two workers (spec 5, single writer per instance).                   *)
StartPublish(w, n, r) ==
    /\ pc[w] = "idle"
    /\ \A w2 \in Workers : pc[w2] # "idle" => target[w2] # n
    /\ pc' = [pc EXCEPT ![w] = "add"]
    /\ target' = [target EXCEPT ![w] = n]
    /\ res' = [res EXCEPT ![w] = r]
    /\ UNCHANGED <<version, cache, ver, proxyVars, restarts>>

\* Mutant: the Add(1) left out, so the publish reuses the current value.
AddVersionSkipped(w) ==
    /\ pc[w] = "add"
    /\ pc' = [pc EXCEPT ![w] = "load"]
    /\ UNCHANGED <<version, cache, target, res, ver, proxyVars, restarts>>

(* s.version.Add(1) *)
AddVersion(w) ==
    /\ pc[w] = "add"
    /\ version < MaxVersion
    /\ version' = version + 1
    /\ pc' = [pc EXCEPT ![w] = "load"]
    /\ UNCHANGED <<cache, target, res, ver, proxyVars, restarts>>

\* Mutant: the version is read one past the counter.
LoadVersionPlusOne(w) ==
    /\ pc[w] = "load"
    /\ ver' = [ver EXCEPT ![w] = version + 1]
    /\ pc' = [pc EXCEPT ![w] = "commit"]
    /\ UNCHANGED <<version, cache, target, res, proxyVars, restarts>>

(* version := s.version.Load(), a second, separate read of the counter *)
LoadVersion(w) ==
    /\ pc[w] = "load"
    /\ ver' = [ver EXCEPT ![w] = version]
    /\ pc' = [pc EXCEPT ![w] = "commit"]
    /\ UNCHANGED <<version, cache, target, res, proxyVars, restarts>>

(* SetSnapshot answers the node's parked watch when the token differs. *)
RespondWatch(n, s) ==
    \/ /\ stream[n] = "watch"
       /\ reqv[n] # s.ver
       /\ stream' = [stream EXCEPT ![n] = "resp"]
       /\ inflight' = [inflight EXCEPT ![n] = s]
    \/ /\ ~(stream[n] = "watch" /\ reqv[n] # s.ver)
       /\ UNCHANGED <<stream, inflight>>

\* Mutant: SetSnapshot that replaces the cache without answering watches.
CommitSnapshotNoRespond(w) ==
    /\ pc[w] = "commit"
    /\ pc' = [pc EXCEPT ![w] = "idle"]
    /\ target' = [target EXCEPT ![w] = NoNode]
    /\ res' = [res EXCEPT ![w] = Malformed]
    /\ ver' = [ver EXCEPT ![w] = 0]
    /\ \/ /\ res[w] = Malformed
          /\ UNCHANGED <<cache, proxyVars>>
       \/ /\ res[w] # Malformed
          /\ cache' = [cache EXCEPT ![target[w]] = [ver |-> ver[w], res |-> res[w]]]
          /\ UNCHANGED proxyVars
    /\ UNCHANGED <<version, restarts>>

(* NewSnapshot(version, resources), then SetSnapshot(nodeid, snapshot).   *)
(* A malformed resource set returns an error and leaves the cache alone. *)
(* Either way the call returns and its frame is gone.                     *)
CommitSnapshot(w) ==
    /\ pc[w] = "commit"
    /\ pc' = [pc EXCEPT ![w] = "idle"]
    /\ target' = [target EXCEPT ![w] = NoNode]
    /\ res' = [res EXCEPT ![w] = Malformed]
    /\ ver' = [ver EXCEPT ![w] = 0]
    /\ \/ /\ res[w] = Malformed
          /\ UNCHANGED <<cache, proxyVars>>
       \/ /\ res[w] # Malformed
          /\ LET s == [ver |-> ver[w], res |-> res[w]]
             IN /\ cache' = [cache EXCEPT ![target[w]] = s]
                /\ RespondWatch(target[w], s)
          /\ UNCHANGED <<firstReq, reqv, applied>>
    /\ UNCHANGED <<version, restarts>>

(* The controller process restarts: NewServer again, every in-progress    *)
(* publish and every stream is lost; proxies keep running their config.  *)
Restart ==
    /\ restarts < MaxRestarts
    /\ restarts' = restarts + 1
    /\ version' = 0
    /\ cache' = [n \in Nodes |-> NoSnapshot]
    /\ pc' = [w \in Workers |-> "idle"]
    /\ target' = [w \in Workers |-> NoNode]
    /\ res' = [w \in Workers |-> Malformed]
    /\ ver' = [w \in Workers |-> 0]
    /\ stream' = [n \in Nodes |-> "down"]
    /\ inflight' = [n \in Nodes |-> NoSnapshot]
    /\ firstReq' = [n \in Nodes |-> FALSE]
    /\ reqv' = [n \in Nodes |-> 0]
    /\ UNCHANGED applied

-----------------------------------------------------------------------------
(* The proxy (re)opens its stream and reports the version it runs. *)
Connect(n) ==
    /\ stream[n] = "down"
    /\ stream' = [stream EXCEPT ![n] = "req"]
    /\ firstReq' = [firstReq EXCEPT ![n] = TRUE]
    /\ reqv' = [reqv EXCEPT ![n] = VersionOf(applied[n])]
    /\ UNCHANGED <<version, cache, pubVars, inflight, applied, restarts>>

\* Mutant: a non-first request is parked without comparing version tokens.
RequestNoCompare(n) ==
    /\ stream[n] = "req"
    /\ firstReq' = [firstReq EXCEPT ![n] = FALSE]
    /\ \/ /\ cache[n] # NoSnapshot
          /\ firstReq[n]
          /\ stream' = [stream EXCEPT ![n] = "resp"]
          /\ inflight' = [inflight EXCEPT ![n] = cache[n]]
       \/ /\ cache[n] = NoSnapshot \/ ~firstReq[n]
          /\ stream' = [stream EXCEPT ![n] = "watch"]
          /\ UNCHANGED inflight
    /\ UNCHANGED <<version, cache, pubVars, reqv, applied, restarts>>

(* The cache handles a discovery request: answer now, or park a watch. *)
Request(n) ==
    /\ stream[n] = "req"
    /\ firstReq' = [firstReq EXCEPT ![n] = FALSE]
    /\ \/ /\ cache[n] # NoSnapshot
          /\ firstReq[n] \/ cache[n].ver # reqv[n]
          /\ stream' = [stream EXCEPT ![n] = "resp"]
          /\ inflight' = [inflight EXCEPT ![n] = cache[n]]
       \/ /\ cache[n] = NoSnapshot \/ (~firstReq[n] /\ cache[n].ver = reqv[n])
          /\ stream' = [stream EXCEPT ![n] = "watch"]
          /\ UNCHANGED inflight
    /\ UNCHANGED <<version, cache, pubVars, reqv, applied, restarts>>

(* The proxy applies the response and ACKs it with a new request. *)
Deliver(n) ==
    /\ stream[n] = "resp"
    /\ applied' = [applied EXCEPT ![n] = inflight[n]]
    /\ reqv' = [reqv EXCEPT ![n] = inflight[n].ver]
    /\ stream' = [stream EXCEPT ![n] = "req"]
    /\ inflight' = [inflight EXCEPT ![n] = NoSnapshot]
    /\ UNCHANGED <<version, cache, pubVars, firstReq, restarts>>

(* The stream breaks (keepalive timeout, proxy restart, network); the    *)
(* per-stream state of the server goes with it.                         *)
Disconnect(n) ==
    /\ stream[n] # "down"
    /\ stream' = [stream EXCEPT ![n] = "down"]
    /\ inflight' = [inflight EXCEPT ![n] = NoSnapshot]
    /\ firstReq' = [firstReq EXCEPT ![n] = FALSE]
    /\ reqv' = [reqv EXCEPT ![n] = 0]
    /\ UNCHANGED <<version, cache, pubVars, applied, restarts>>

-----------------------------------------------------------------------------
Next ==
    \/ \E w \in Workers, n \in Nodes, r \in Resources : StartPublish(w, n, r)
    \/ \E w \in Workers : AddVersion(w) \/ LoadVersion(w) \/ CommitSnapshot(w)
    \/ Restart
    \/ \E n \in Nodes : Connect(n) \/ Request(n) \/ Deliver(n) \/ Disconnect(n)

(* Goroutines that entered UpdateXDSServer run on; the serving loops and   *)
(* Envoy's reconnect loop keep going.  Callers, stream breaks and restarts *)
(* are the environment and need not happen.                               *)
Fairness ==
    /\ \A w \in Workers :
          WF_vars(AddVersion(w)) /\ WF_vars(LoadVersion(w)) /\ WF_vars(CommitSnapshot(w))
    /\ \A n \in Nodes :
          WF_vars(Connect(n)) /\ WF_vars(Request(n)) /\ WF_vars(Deliver(n))

Spec == Init /\ [][Next]_vars
FairSpec == Spec /\ Fairness

-----------------------------------------------------------------------------
TypeOK ==
    /\ version \in Versions
    /\ cache \in [Nodes -> Snapshots \cup {NoSnapshot}]
    /\ pc \in [Workers -> PCs]
    /\ target \in [Workers -> Nodes]
    /\ res \in [Workers -> Resources]
    /\ ver \in [Workers -> Versions]
    /\ stream \in [Nodes -> StreamStates]
    /\ firstReq \in [Nodes -> BOOLEAN]
    /\ reqv \in [Nodes -> Versions]
    /\ inflight \in [Nodes -> Snapshots \cup {NoSnapshot}]
    /\ applied \in [Nodes -> Snapshots \cup {NoSnapshot}]
    /\ restarts \in 0..MaxRestarts

(* Auxiliary invariant of the proofs (XdsServerProofs), not a property of *)
(* the code: a watch parked for a node reports the token cached for it.   *)
(* It follows from go-control-plane's Request and RespondWatch guards.    *)
WatchVersionCurrent ==
    \A n \in Nodes :
        stream[n] = "watch" /\ cache[n] # NoSnapshot => cache[n].ver = reqv[n]

(* A proxy whose watch is parked runs the snapshot the cache holds for    *)
(* its node: a parked watch means "up to date" (spec 4.3, push on every   *)
(* newer snapshot).                                                       *)
ParkedWatchCurrent ==
    \A n \in Nodes :
        stream[n] = "watch" /\ cache[n] # NoSnapshot => applied[n] = cache[n]

(* Two nodes never hold snapshots with the same version token: the        *)
(* counter is "never reused" and concurrent publishes must not "race onto *)
(* the same version number" (spec 4.3, 5).                                *)
VersionTokensUnique ==
    \A n1, n2 \in Nodes :
        /\ n1 # n2
        /\ cache[n1] # NoSnapshot
        /\ cache[n2] # NoSnapshot
        => cache[n1].ver # cache[n2].ver

(* Every replacement of a node's cached snapshot carries a strictly       *)
(* larger version token (spec 8: publishes for one instance in sequence). *)
PerNodeVersionIncreasing ==
    [][\A n \in Nodes :
          cache[n] # NoSnapshot /\ cache'[n] # NoSnapshot /\ cache'[n] # cache[n]
          => cache'[n].ver > cache[n].ver]_vars

(* A connected proxy eventually runs what the cache holds for its node,   *)
(* unless its stream breaks first.                                        *)
Converges ==
    \A n \in Nodes :
        (cache[n] # NoSnapshot /\ stream[n] # "down")
            ~> (stream[n] = "down" \/ applied[n] = cache[n])
(* The counter and the cache implement the abstract snapshot store: every *)
(* Add(1) issues a version, every SetSnapshot moves a node to a snapshot   *)
(* of an issued version above the one it held, every restart starts both  *)
(* from nothing, and nothing else touches them.                           *)
Store == INSTANCE SnapshotStore WITH counter <- version, store <- cache
StoreSpec == Store!Spec
=============================================================================
