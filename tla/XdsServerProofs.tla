--------------------------- MODULE XdsServerProofs ---------------------------
(***************************************************************************)
(* Proofs about XdsServer for every value of the constants.               *)
(*                                                                         *)
(* TypeOK alone is not inductive: CommitSnapshot builds the snapshot      *)
(* [ver |-> ver[w], ...], which is a snapshot (version >= 1) only because *)
(* the Load that set ver[w] came after the worker's own Add; and Deliver  *)
(* reads inflight[n].ver, which exists only because a stream in state    *)
(* "resp" always carries a response.  IInv adds these two facts.          *)
(***************************************************************************)
EXTENDS XdsServer, TLAPS

\* A worker past its Add sees a positive counter, and past its Load holds a
\* positive version.
PubInv ==
    \A w \in Workers :
        /\ pc[w] = "load" => version \in 1..MaxVersion
        /\ pc[w] = "commit" => ver[w] \in 1..MaxVersion

\* A response is in flight exactly when the stream is in state "resp".
RespInv ==
    \A n \in Nodes : stream[n] = "resp" => inflight[n] \in Snapshots

\* StartPublish lets at most one caller publish for a node at a time.
OnePublisherPerNode ==
    \A w1, w2 \in Workers :
        w1 # w2 /\ pc[w1] # "idle" /\ pc[w2] # "idle" => target[w1] # target[w2]

\* Version token of what the cache holds for n (0 when nothing).
CachedVer(n) == VersionOf(cache[n])

\* No cached token is ahead of the counter, and a publish past its Add
\* holds a token above the one cached for its node: its Load reads at
\* least the value its own Add produced.
PubOrder ==
    /\ \A n \in Nodes : CachedVer(n) <= version
    /\ \A w \in Workers :
          /\ pc[w] = "load" => CachedVer(target[w]) < version
          /\ pc[w] = "commit" => CachedVer(target[w]) < ver[w] /\ ver[w] <= version

\* s is a snapshot the cache held for n at some time since the process
\* started: not newer than the cached one, and equal to it if its token is.
Behind(s, n) ==
    s # NoSnapshot =>
        /\ cache[n] # NoSnapshot
        /\ s.ver <= cache[n].ver
        /\ s.ver = cache[n].ver => s = cache[n]

\* A proxy that is requesting reports the token of what it runs, and, as
\* long as the process has not restarted (a restart empties the cache
\* while proxies keep their configuration), what it runs or receives
\* came from the cache.
ProxyHist ==
    \A n \in Nodes :
        /\ stream[n] \in {"req", "watch"} => reqv[n] = VersionOf(applied[n])
        /\ restarts = 0 => Behind(applied[n], n) /\ Behind(inflight[n], n)

IInv == TypeOK /\ PubInv /\ RespInv

USE ConstAssumption

LEMMA InitIInv == Init => IInv
<1> SUFFICES ASSUME Init PROVE IInv
  OBVIOUS
<1>1. NoNode \in Nodes
  BY DEF NoNode
<1>2. TypeOK
  BY <1>1 DEF Init, TypeOK, Versions, PCs, StreamStates, Resources
<1>3. PubInv /\ RespInv
  BY DEF Init, PubInv, RespInv
<1>4. QED
  BY <1>2, <1>3 DEF IInv

LEMMA NextIInv == IInv /\ [Next]_vars => IInv'
<1> SUFFICES ASSUME IInv, [Next]_vars PROVE IInv'
  OBVIOUS
<1> USE DEF IInv, TypeOK, PubInv, RespInv, Versions, PCs, StreamStates,
            Resources, Snapshots
<1>1. ASSUME NEW w \in Workers, NEW n \in Nodes, NEW r \in Resources,
             StartPublish(w, n, r)
      PROVE IInv'
  BY <1>1 DEF StartPublish, proxyVars
<1>2. ASSUME NEW w \in Workers, AddVersion(w) PROVE IInv'
  BY <1>2 DEF AddVersion, proxyVars
<1>3. ASSUME NEW w \in Workers, LoadVersion(w) PROVE IInv'
  BY <1>3 DEF LoadVersion, proxyVars
<1>4. ASSUME NEW w \in Workers, CommitSnapshot(w) PROVE IInv'
  <2>1. CASE res[w] = Malformed
    BY <1>4, <2>1 DEF CommitSnapshot, proxyVars, NoNode
  <2>2. CASE res[w] # Malformed
    <3> DEFINE s == [ver |-> ver[w], res |-> res[w]]
    <3>1. s \in Snapshots
      BY <1>4, <2>2 DEF CommitSnapshot
    <3>2. cache' = [cache EXCEPT ![target[w]] = s] /\ RespondWatch(target[w], s)
      BY <1>4, <2>2 DEF CommitSnapshot
    <3>3. UNCHANGED <<firstReq, reqv, applied, version, restarts>>
      BY <1>4, <2>2 DEF CommitSnapshot
    <3>4. /\ pc' = [pc EXCEPT ![w] = "idle"]
          /\ target' = [target EXCEPT ![w] = NoNode]
          /\ res' = [res EXCEPT ![w] = Malformed]
          /\ ver' = [ver EXCEPT ![w] = 0]
      BY <1>4 DEF CommitSnapshot
    <3>5. NoNode \in Nodes
      BY DEF NoNode
    <3>6. QED
      BY <3>1, <3>2, <3>3, <3>4, <3>5 DEF RespondWatch
  <2>3. QED
    BY <2>1, <2>2
<1>5. CASE Restart
  BY <1>5 DEF Restart, NoNode
<1>6. ASSUME NEW n \in Nodes, Connect(n) PROVE IInv'
  BY <1>6 DEF Connect, VersionOf, pubVars
<1>7. ASSUME NEW n \in Nodes, Request(n) PROVE IInv'
  BY <1>7 DEF Request, pubVars
<1>8. ASSUME NEW n \in Nodes, Deliver(n) PROVE IInv'
  BY <1>8 DEF Deliver, pubVars
<1>9. ASSUME NEW n \in Nodes, Disconnect(n) PROVE IInv'
  BY <1>9 DEF Disconnect, pubVars
<1>10. CASE UNCHANGED vars
  BY <1>10 DEF vars, pubVars, proxyVars
<1>11. QED
  BY <1>1, <1>2, <1>3, <1>4, <1>5, <1>6, <1>7, <1>8, <1>9, <1>10 DEF Next

(* The type invariant of the distribution server holds in every reachable *)
(* state: versions stay within the counter's range, every cached, in-     *)
(* flight or applied value is a snapshot built by UpdateXDSServer.        *)
THEOREM TypeCorrect == Spec => []TypeOK
<1>1. Spec => []IInv
  BY InitIInv, NextIInv, PTL DEF Spec
<1>2. QED
  BY <1>1, PTL DEF IInv

LEMMA NextWVC == IInv /\ WatchVersionCurrent /\ [Next]_vars => WatchVersionCurrent'
<1> SUFFICES ASSUME IInv, WatchVersionCurrent, [Next]_vars
             PROVE WatchVersionCurrent'
  OBVIOUS
<1> USE DEF WatchVersionCurrent, IInv, TypeOK
<1>1. ASSUME NEW w \in Workers, NEW n \in Nodes, NEW r \in Resources,
             StartPublish(w, n, r)
      PROVE WatchVersionCurrent'
  BY <1>1 DEF StartPublish, proxyVars
<1>2. ASSUME NEW w \in Workers, AddVersion(w) PROVE WatchVersionCurrent'
  BY <1>2 DEF AddVersion, proxyVars
<1>3. ASSUME NEW w \in Workers, LoadVersion(w) PROVE WatchVersionCurrent'
  BY <1>3 DEF LoadVersion, proxyVars
<1>4. ASSUME NEW w \in Workers, CommitSnapshot(w) PROVE WatchVersionCurrent'
  <2>1. CASE res[w] = Malformed
    BY <1>4, <2>1 DEF CommitSnapshot, proxyVars
  <2>2. CASE res[w] # Malformed
    <3> DEFINE s == [ver |-> ver[w], res |-> res[w]]
    <3>1. cache' = [cache EXCEPT ![target[w]] = s] /\ RespondWatch(target[w], s)
          /\ reqv' = reqv
      BY <1>4, <2>2 DEF CommitSnapshot
    <3>2. QED
      BY <3>1 DEF RespondWatch
  <2>3. QED
    BY <2>1, <2>2
<1>5. CASE Restart
  BY <1>5 DEF Restart
<1>6. ASSUME NEW n \in Nodes, Connect(n) PROVE WatchVersionCurrent'
  BY <1>6 DEF Connect
<1>7. ASSUME NEW n \in Nodes, Request(n) PROVE WatchVersionCurrent'
  BY <1>7 DEF Request
<1>8. ASSUME NEW n \in Nodes, Deliver(n) PROVE WatchVersionCurrent'
  BY <1>8 DEF Deliver
<1>9. ASSUME NEW n \in Nodes, Disconnect(n) PROVE WatchVersionCurrent'
  BY <1>9 DEF Disconnect
<1>10. CASE UNCHANGED vars
  BY <1>10 DEF vars, proxyVars
<1>11. QED
  BY <1>1, <1>2, <1>3, <1>4, <1>5, <1>6, <1>7, <1>8, <1>9, <1>10 DEF Next

HInv == IInv /\ WatchVersionCurrent /\ OnePublisherPerNode /\ PubOrder /\ ProxyHist

HistInv == OnePublisherPerNode /\ PubOrder /\ ProxyHist

LEMMA CachedVerRange ==
    ASSUME TypeOK, NEW n \in Nodes
    PROVE  /\ CachedVer(n) \in 0..MaxVersion
           /\ cache[n] # NoSnapshot => CachedVer(n) = cache[n].ver /\ cache[n].ver \in 1..MaxVersion
           /\ cache[n] = NoSnapshot => CachedVer(n) = 0
BY DEF TypeOK, CachedVer, VersionOf, Snapshots

LEMMA CacheFrame ==
    ASSUME cache' = cache
    PROVE  \A n \in Nodes : CachedVer(n)' = CachedVer(n)
BY DEF CachedVer, VersionOf

LEMMA InitHist == Init => HistInv
BY DEF Init, HistInv, OnePublisherPerNode, PubOrder, ProxyHist, Behind, CachedVer,
       VersionOf

LEMMA NextHist == HInv /\ [Next]_vars => HistInv'
<1> SUFFICES ASSUME HInv, [Next]_vars PROVE HistInv'
  OBVIOUS
<1> USE DEF HInv, HistInv, IInv, TypeOK, PubInv, RespInv, Versions, PCs, Snapshots,
            OnePublisherPerNode, PubOrder, ProxyHist
<1>1. ASSUME NEW w \in Workers, NEW n \in Nodes, NEW r \in Resources,
             StartPublish(w, n, r)
      PROVE HistInv'
  BY <1>1, CacheFrame, CachedVerRange DEF StartPublish, proxyVars, Behind
<1>2. ASSUME NEW w \in Workers, AddVersion(w) PROVE HistInv'
  <2>1. /\ version' = version + 1 /\ pc' = [pc EXCEPT ![w] = "load"] /\ pc[w] = "add"
        /\ UNCHANGED <<cache, target, ver, proxyVars, restarts>>
    BY <1>2 DEF AddVersion
  <2>2. \A n \in Nodes : CachedVer(n)' = CachedVer(n) /\ CachedVer(n) <= version
    BY <2>1, CacheFrame
  <2>3. PubOrder'
    BY <2>1, <2>2, CachedVerRange
  <2>4. OnePublisherPerNode' /\ ProxyHist'
    BY <2>1 DEF proxyVars, Behind
  <2>5. QED
    BY <2>3, <2>4
<1>3. ASSUME NEW w \in Workers, LoadVersion(w) PROVE HistInv'
  BY <1>3, CacheFrame, CachedVerRange DEF LoadVersion, proxyVars, Behind
<1>4. ASSUME NEW w \in Workers, CommitSnapshot(w) PROVE HistInv'
  <2>1. /\ pc' = [pc EXCEPT ![w] = "idle"]
        /\ target' = [target EXCEPT ![w] = NoNode]
        /\ ver' = [ver EXCEPT ![w] = 0]
        /\ pc[w] = "commit"
        /\ UNCHANGED <<version, restarts>>
    BY <1>4 DEF CommitSnapshot
  <2>2. OnePublisherPerNode'
    BY <2>1
  <2>3. CASE res[w] = Malformed
    BY <1>4, <2>1, <2>3 DEF CommitSnapshot, proxyVars, CachedVer, Behind
  <2>4. CASE res[w] # Malformed
    <3> DEFINE s == [ver |-> ver[w], res |-> res[w]]
               t == target[w]
    <3>1. /\ cache' = [cache EXCEPT ![t] = s] /\ RespondWatch(t, s)
          /\ UNCHANGED <<firstReq, reqv, applied>>
      BY <1>4, <2>4 DEF CommitSnapshot
    <3>2. CachedVer(t) < s.ver /\ s.ver <= version /\ s.ver \in 1..MaxVersion
      BY <2>1
    <3>3. \A w2 \in Workers : w2 # w /\ pc[w2] # "idle" => target[w2] # t
      BY <2>1
    <3>4. t \in Nodes /\ s \in Snapshots /\ s # NoSnapshot
      BY <2>1, <2>4, <3>2 DEF Snapshots, Resources
    <3>5. \A m \in Nodes : CachedVer(m)' = IF m = t THEN s.ver ELSE CachedVer(m)
      BY <3>1, <3>4 DEF CachedVer, VersionOf
    <3>6. \A m \in Nodes : CachedVer(m)' <= version
      BY <2>1, <3>2, <3>5, CachedVerRange
    <3>7. \A w2 \in Workers : pc'[w2] \in {"load", "commit"} =>
              /\ w2 # w /\ pc'[w2] = pc[w2] /\ target'[w2] = target[w2] /\ ver'[w2] = ver[w2]
              /\ CachedVer(target[w2])' = CachedVer(target[w2])
      BY <2>1, <3>3, <3>5
    <3>8. PubOrder'
      BY <2>1, <3>6, <3>7
    <3>9. restarts = 0 => \A m \in Nodes : Behind(applied[m], m)' /\ Behind(inflight[m], m)'
      <4> SUFFICES ASSUME restarts = 0, NEW m \in Nodes
                   PROVE Behind(applied[m], m)' /\ Behind(inflight[m], m)'
        OBVIOUS
      <4>1. Behind(applied[m], m) /\ Behind(inflight[m], m)
        OBVIOUS
      <4>2. CASE m # t
        BY <3>1, <4>1, <4>2 DEF RespondWatch, Behind
      <4>3. CASE m = t
        <5>1. applied[m] # NoSnapshot => applied[m].ver < s.ver
          BY <3>2, <4>1, <4>3 DEF Behind, CachedVer, VersionOf
        <5>2. inflight[m] # NoSnapshot => inflight[m].ver < s.ver
          BY <3>2, <4>1, <4>3 DEF Behind, CachedVer, VersionOf
        <5>3. inflight'[m] = s \/ inflight'[m] = inflight[m]
          BY <3>1, <4>3 DEF RespondWatch
        <5>4. cache'[m] = s
          BY <3>1, <4>3
        <5>5. QED
          BY <3>1, <3>2, <3>4, <5>1, <5>2, <5>3, <5>4 DEF Behind
      <4>4. QED
        BY <4>2, <4>3
    <3>10. \A m \in Nodes : stream'[m] \in {"req", "watch"} => reqv'[m] = VersionOf(applied'[m])
      BY <3>1 DEF RespondWatch
    <3>11. QED
      BY <2>1, <2>2, <3>8, <3>9, <3>10
  <2>5. QED
    BY <2>3, <2>4
<1>5. CASE Restart
  BY <1>5 DEF Restart, CachedVer, VersionOf
<1>6. ASSUME NEW n \in Nodes, Connect(n) PROVE HistInv'
  BY <1>6, CacheFrame, CachedVerRange DEF Connect, pubVars, Behind
<1>7. ASSUME NEW n \in Nodes, Request(n) PROVE HistInv'
  BY <1>7, CacheFrame, CachedVerRange DEF Request, pubVars, Behind
<1>8. ASSUME NEW n \in Nodes, Deliver(n) PROVE HistInv'
  BY <1>8, CacheFrame, CachedVerRange DEF Deliver, pubVars, Behind, VersionOf
<1>9. ASSUME NEW n \in Nodes, Disconnect(n) PROVE HistInv'
  BY <1>9, CacheFrame, CachedVerRange DEF Disconnect, pubVars, Behind
<1>10. CASE UNCHANGED vars
  BY <1>10 DEF vars, pubVars, proxyVars, CachedVer, Behind
<1>11. QED
  BY <1>1, <1>2, <1>3, <1>4, <1>5, <1>6, <1>7, <1>8, <1>9, <1>10 DEF Next

LEMMA SpecHInv == Spec => []HInv
<1>1. Init => HInv
  BY InitIInv, InitHist DEF Init, WatchVersionCurrent, HInv, HistInv
<1>2. HInv /\ [Next]_vars => HInv'
  BY NextIInv, NextWVC, NextHist DEF HInv, HistInv
<1>3. QED
  BY <1>1, <1>2, PTL DEF Spec

LEMMA StepVersionIncreasing ==
    HInv /\ [Next]_vars =>
        \A n \in Nodes :
            cache[n] # NoSnapshot /\ cache'[n] # NoSnapshot /\ cache'[n] # cache[n]
            => cache'[n].ver > cache[n].ver
<1> SUFFICES ASSUME HInv, [Next]_vars, NEW n \in Nodes,
                    cache[n] # NoSnapshot, cache'[n] # NoSnapshot, cache'[n] # cache[n]
             PROVE  cache'[n].ver > cache[n].ver
  OBVIOUS
<1> USE DEF HInv, IInv, TypeOK
<1>1. CASE \E w \in Workers : CommitSnapshot(w)
  <2>1. PICK w \in Workers : CommitSnapshot(w)
    BY <1>1
  <2>2. res[w] # Malformed /\ target[w] = n
        /\ cache'[n] = [ver |-> ver[w], res |-> res[w]]
    BY <2>1 DEF CommitSnapshot
  <2>3. pc[w] = "commit"
    BY <2>1 DEF CommitSnapshot
  <2>4. CachedVer(n) < ver[w]
    BY <2>2, <2>3 DEF PubOrder
  <2>5. QED
    BY <2>2, <2>4, CachedVerRange DEF CachedVer, VersionOf
<1>2. CASE Restart
  BY <1>2 DEF Restart
<1>3. CASE ~(\E w \in Workers : CommitSnapshot(w)) /\ ~Restart
  BY <1>3 DEF Next, vars, StartPublish, AddVersion, LoadVersion, Connect, Request,
             Deliver, Disconnect
<1>4. QED
  BY <1>1, <1>2, <1>3

(* Within one process and across restarts, every time SetSnapshot         *)
(* replaces a node's cached snapshot the new one carries a strictly       *)
(* larger version token.  UpdateXDSServer reads the counter after its own *)
(* Add(1), and the workqueue lets only one caller publish for a node at a *)
(* time, so no later publish for a node can carry an older token, even    *)
(* when the Add/Load race gives two nodes the same one.                   *)
THEOREM VersionIncreasesPerNode == Spec => PerNodeVersionIncreasing
<1>1. HInv /\ [Next]_vars => [\A n \in Nodes :
          cache[n] # NoSnapshot /\ cache'[n] # NoSnapshot /\ cache'[n] # cache[n]
          => cache'[n].ver > cache[n].ver]_vars
  BY StepVersionIncreasing
<1>2. QED
  BY SpecHInv, <1>1, PTL DEF Spec, PerNodeVersionIncreasing

LEMMA HInvParked == HInv /\ restarts = 0 => ParkedWatchCurrent
<1> SUFFICES ASSUME HInv, restarts = 0, NEW n \in Nodes,
                    stream[n] = "watch", cache[n] # NoSnapshot
             PROVE  applied[n] = cache[n]
  BY DEF ParkedWatchCurrent
<1> USE DEF HInv, IInv, TypeOK
<1>1. cache[n].ver = reqv[n] /\ reqv[n] = VersionOf(applied[n])
  BY DEF WatchVersionCurrent, ProxyHist
<1>2. cache[n].ver \in 1..MaxVersion
  BY CachedVerRange
<1>3. applied[n] # NoSnapshot
  BY <1>1, <1>2 DEF VersionOf
<1>4. QED
  BY <1>1, <1>3 DEF ProxyHist, Behind, VersionOf

(* While the controller process has not restarted, a proxy whose watch   *)
(* the snapshot cache keeps parked already runs the snapshot cached for  *)
(* its node.  A watch is parked only on an equal version token, and one  *)
(* node never sees two different snapshots with one token in a process's *)
(* life.  With restarts this fails (the counter starts again at 0), so   *)
(* the theorem assumes none, as the run that checks it does.             *)
THEOREM ParkedWatchCurrentWithoutRestart ==
    ASSUME MaxRestarts = 0
    PROVE  Spec => []ParkedWatchCurrent
<1>1. HInv => restarts = 0
  BY DEF HInv, IInv, TypeOK
<1>2. HInv => ParkedWatchCurrent
  BY <1>1, HInvParked
<1>3. QED
  BY SpecHInv, <1>2, PTL

(* The refinement mapping counter <- version, store <- cache: the        *)
(* abstract version of an instance is the token cached for it.           *)
LEMMA ActiveIsCached ==
    ASSUME NEW n \in Nodes
    PROVE  Store!ActiveVersion(n) = CachedVer(n)
BY DEF Store!ActiveVersion, CachedVer, VersionOf

LEMMA InitRefinesStore == Init => Store!Init
BY DEF Init, Store!Init

LEMMA NextRefinesStore == HInv /\ [Next]_vars => [Store!Next]_<<version, cache>>
<1> SUFFICES ASSUME HInv, [Next]_vars PROVE [Store!Next]_<<version, cache>>
  OBVIOUS
<1> USE DEF HInv, IInv, TypeOK
<1>1. CASE \E w \in Workers : AddVersion(w)
  <2>1. Store!Issue
    BY <1>1 DEF AddVersion, Store!Issue
  <2>2. QED
    BY <2>1 DEF Store!Next
<1>2. CASE \E w \in Workers : CommitSnapshot(w)
  <2>1. PICK w \in Workers : CommitSnapshot(w)
    BY <1>2
  <2>2. CASE res[w] = Malformed
    BY <2>1, <2>2 DEF CommitSnapshot
  <2>3. CASE res[w] # Malformed
    <3>1. /\ cache' = [cache EXCEPT ![target[w]] = [ver |-> ver[w], res |-> res[w]]]
          /\ version' = version /\ pc[w] = "commit"
      BY <2>1, <2>3 DEF CommitSnapshot
    <3>2. target[w] \in Nodes /\ res[w] \in Configs /\ ver[w] \in 0..MaxVersion
      BY <2>3 DEF Resources, Versions
    <3>3. CachedVer(target[w]) < ver[w] /\ ver[w] <= version
      BY <3>1 DEF PubOrder
    <3>4. CachedVer(target[w]) \in 0..MaxVersion
      BY <3>2, CachedVerRange
    <3>5. ver[w] \in 1..version
      BY <3>2, <3>3, <3>4
    <3>6. Store!ActiveVersion(target[w]) < ver[w]
      BY <3>2, <3>3, ActiveIsCached
    <3>7. Store!Publish(target[w], [ver |-> ver[w], res |-> res[w]])
      BY <3>1, <3>2, <3>5, <3>6 DEF Store!Publish
    <3>8. QED
      BY <3>2, <3>5, <3>7 DEF Store!Next
  <2>4. QED
    BY <2>2, <2>3
<1>3. CASE Restart
  <2>1. Store!Reset
    BY <1>3 DEF Restart, Store!Reset
  <2>2. QED
    BY <2>1 DEF Store!Next
<1>4. CASE ~(\E w \in Workers : AddVersion(w) \/ CommitSnapshot(w)) /\ ~Restart
  <2>1. UNCHANGED <<version, cache>>
    BY <1>4 DEF Next, vars, StartPublish, LoadVersion, Connect, Request, Deliver,
                Disconnect
  <2>2. QED
    BY <2>1
<1>5. QED
  BY <1>1, <1>2, <1>3, <1>4

(* The version counter and the snapshot cache of UpdateXDSServer          *)
(* implement the abstract snapshot store, for every number of nodes,      *)
(* workers, configurations, versions and restarts: each Add(1) issues a   *)
(* version, each SetSnapshot moves its node to an issued version above    *)
(* the one it held (the one publisher per node reads the counter after    *)
(* its own Add), and each restart starts both from nothing.               *)
THEOREM ImplementsSnapshotStore == Spec => StoreSpec
<1>1. Init => Store!Init
  BY InitRefinesStore
<1>2. HInv /\ [Next]_vars => [Store!Next]_<<version, cache>>
  BY NextRefinesStore
<1>3. QED
  BY SpecHInv, <1>1, <1>2, PTL DEF Spec, StoreSpec, Store!Spec, Store!storeVars

=============================================================================
