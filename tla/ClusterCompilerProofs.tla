------------------------- MODULE ClusterCompilerProofs -------------------------
(***************************************************************************)
(* Proofs about the connectivity compiler (fetchBackend,                  *)
(* convertBackendToCluster, buildClustersFromBackends).                   *)
(*                                                                         *)
(* The argument is per backendRef: each branch of fetchBackend, in the    *)
(* order of its checks, yields what section 4.2 of the spec asks of that  *)
(* ref (RefCorrect).  The only state invariant needed is that the listers *)
(* are typed and the result is empty or the compiler's output on refs.    *)
(***************************************************************************)
EXTENDS ClusterCompiler, TLAPS

USE ClusterAssumption

TypeOK ==
    /\ backends \in [Labels \X Labels -> BackendSpecs \cup {Absent}]
    /\ refs \in Seq(BackendRefs)

\* The result is the one the Compile step writes, or not yet written.
IInv == TypeOK /\ (result = <<>> \/ result = BuildClusters(refs))

\* What ClustersAsSpecified asks of the entry r computed for ref.
Good(ref, r) ==
    LET ns  == RefNs(ref)
        b   == backends[<<ns, ref.name>>]
        ok  == /\ ref.kind \in {Nil, "Backend"}
               /\ b # Absent
               /\ b.svc # Empty => <<ns, b.svc>> \in services
    IN /\ r.ok => ok
       /\ ns = RouteNs => (r.ok <=> ok)
       /\ r.ok =>
             LET c == r.cluster IN
             /\ c.name = ns \o <<"-">> \o ref.name
             /\ c.connectTimeout = 5
             /\ IF b.svc # Empty
                   THEN /\ c.type = "STRICT_DNS" /\ c.sni = Nil
                        /\ c.endpoint = <<b.svc \o <<".">> \o ns \o <<".">> \o ClusterLocal,
                                          b.port>>
                   ELSE /\ c.type = "LOGICAL_DNS" /\ c.sni = b.host
                        /\ c.endpoint = <<b.host, b.port>>

\* The entry buildClustersFromBackends leaves for one ref.
Entry(ref) ==
    IF FetchBackend(ref).ok
       THEN [ok |-> TRUE, cluster |-> ConvertBackendToCluster(FetchBackend(ref).backend)]
       ELSE FetchBackend(ref)

\* Every branch of fetchBackend, followed by convertBackendToCluster on
\* success, gives the entry the spec asks for.
LEMMA RefCorrect ==
    ASSUME TypeOK, NEW ref \in BackendRefs
    PROVE  Good(ref, Entry(ref))
<1> DEFINE ns == RefNs(ref)
           b  == backends[<<ns, ref.name>>]
           cross == ns # RouteNs /\ ~CrossNamespaceRefAllowed([ns |-> RouteNs],
                                        [kind |-> "Service", name |-> ref.name], ns)
<1>1. ns \in Labels /\ ref.name \in Labels
  BY DEF RefNs, BackendRefs
<1>2. b \in BackendSpecs \cup {Absent}
  BY <1>1 DEF TypeOK
<1>3. CASE ref.kind \notin {Nil, "Backend"}
  <2>1. FetchBackend(ref) = Err("InvalidKind")
    BY <1>3 DEF FetchBackend
  <2>2. ~Entry(ref).ok
    BY <2>1 DEF Entry, Err
  <2>3. QED
    BY <1>3, <2>2 DEF Good
<1>4. CASE ref.kind \in {Nil, "Backend"} /\ cross
  <2>1. FetchBackend(ref) = Err("RefNotPermitted")
    BY <1>4 DEF FetchBackend, RefNs
  <2>2. ~Entry(ref).ok
    BY <2>1 DEF Entry, Err
  <2>3. QED
    BY <1>4, <2>2 DEF Good
<1>5. CASE ref.kind \in {Nil, "Backend"} /\ ~cross /\ b = Absent
  <2>1. FetchBackend(ref) = Err("BackendNotFound")
    BY <1>5 DEF FetchBackend, RefNs
  <2>2. ~Entry(ref).ok
    BY <2>1 DEF Entry, Err
  <2>3. QED
    BY <1>5, <2>2 DEF Good
<1>6. CASE ref.kind \in {Nil, "Backend"} /\ ~cross /\ b # Absent
           /\ b.svc # Empty /\ <<ns, b.svc>> \notin services
  <2>1. FetchBackend(ref) = Err("BackendNotFound")
    BY <1>6 DEF FetchBackend, RefNs
  <2>2. ~Entry(ref).ok
    BY <2>1 DEF Entry, Err
  <2>3. QED
    BY <1>6, <2>2 DEF Good
<1>7. CASE ref.kind \in {Nil, "Backend"} /\ ~cross /\ b # Absent
           /\ (b.svc # Empty => <<ns, b.svc>> \in services)
  <2>1. FetchBackend(ref) = Ok([ns |-> ns, name |-> ref.name, svc |-> b.svc,
                                host |-> b.host, port |-> b.port])
    BY <1>7 DEF FetchBackend, RefNs
  <2>2. Entry(ref) = [ok |-> TRUE, cluster |-> ConvertBackendToCluster(
                        [ns |-> ns, name |-> ref.name, svc |-> b.svc,
                         host |-> b.host, port |-> b.port])]
    BY <2>1 DEF Entry, Ok
  <2> DEFINE cl == ConvertBackendToCluster([ns |-> ns, name |-> ref.name, svc |-> b.svc,
                                             host |-> b.host, port |-> b.port])
  <2>3. cl.name = ns \o <<"-">> \o ref.name /\ cl.connectTimeout = 5
    BY DEF ConvertBackendToCluster, Join
  <2>4. b.svc # Empty =>
          /\ cl.type = "STRICT_DNS" /\ cl.sni = Nil
          /\ cl.endpoint = <<b.svc \o <<".">> \o ns \o <<".">> \o ClusterLocal, b.port>>
    BY DEF ConvertBackendToCluster, Join
  <2>5. b.svc = Empty =>
          /\ cl.type = "LOGICAL_DNS" /\ cl.sni = b.host
          /\ cl.endpoint = <<b.host, b.port>>
    BY DEF ConvertBackendToCluster
  <2>6. Entry(ref).ok /\ Entry(ref).cluster = cl
    BY <2>2
  <2> HIDE DEF cl
  <2>7. QED
    BY <1>7, <2>3, <2>4, <2>5, <2>6 DEF Good
<1>8. QED
  BY <1>3, <1>4, <1>5, <1>6, <1>7

\* The compiler's output depends only on the listers and the refs.
LEMMA BuildFrame ==
    ASSUME backends' = backends, services' = services, grants' = grants, refs' = refs
    PROVE  BuildClusters(refs)' = BuildClusters(refs)
<1>1. ASSUME NEW r PROVE FetchBackend(r)' = FetchBackend(r)
  BY DEF FetchBackend, CrossNamespaceRefAllowed, Err, Ok
<1>2. QED
  BY <1>1 DEF BuildClusters

LEMMA InitIInv == Init => IInv
BY DEF Init, IInv, TypeOK

LEMMA NextIInv == IInv /\ [Next]_vars => IInv'
<1> SUFFICES ASSUME IInv, [Next]_vars PROVE IInv'
  OBVIOUS
<1>1. CASE Compile
  <2>1. result' = BuildClusters(refs) /\ UNCHANGED <<backends, services, grants, refs>>
    BY <1>1 DEF Compile
  <2>2. QED
    BY <2>1, BuildFrame DEF IInv, TypeOK
<1>2. CASE UNCHANGED vars
  <2>1. UNCHANGED <<backends, services, grants, refs, result>>
    BY <1>2 DEF vars
  <2>2. QED
    BY <2>1, BuildFrame DEF IInv, TypeOK
<1>3. QED
  BY <1>1, <1>2 DEF Next

LEMMA IInvSpecified == IInv => ClustersAsSpecified
<1> SUFFICES ASSUME IInv, NEW i \in DOMAIN result
             PROVE  Good(refs[i], result[i])
  BY DEF ClustersAsSpecified, Good
<1>1. result = BuildClusters(refs)
  BY DEF IInv
<1>2. i \in DOMAIN refs /\ result[i] = Entry(refs[i])
  BY <1>1 DEF BuildClusters, Entry
<1>3. refs[i] \in BackendRefs
  BY <1>2 DEF IInv, TypeOK
<1>4. QED
  BY <1>2, <1>3, RefCorrect DEF IInv

(* For any listers and any route, every cluster buildClustersFromBackends *)
(* returns, and every error fetchBackend reports, is what section 4.2 of  *)
(* the spec prescribes for that backendRef: a cluster only for an         *)
(* existing Backend of kind Backend whose Service exists, always one for  *)
(* such a ref in the route's namespace, named "<namespace>-<name>", with  *)
(* STRICT_DNS to the Service's cluster-local name or LOGICAL_DNS with TLS *)
(* to the hostname.                                                        *)
THEOREM ClustersCompiledAsSpecified == Spec => []ClustersAsSpecified
<1>1. Init => IInv
  BY InitIInv
<1>2. IInv /\ [Next]_vars => IInv'
  BY NextIInv
<1>3. IInv => ClustersAsSpecified
  BY IInvSpecified
<1>4. QED
  BY <1>1, <1>2, <1>3, PTL DEF Spec
=============================================================================
