---------------------------- MODULE ClusterCompiler ----------------------------
(***************************************************************************)
(* The connectivity compiler of the translator (unnamed/part_006):        *)
(* fetchBackend resolves and validates one backendRef of an HTTPRoute,    *)
(* convertBackendToCluster turns a Backend into an Envoy cluster and      *)
(* buildClustersFromBackends does so for a list of Backends.              *)
(*                                                                         *)
(* Names are DNS labels, kept as sequences of characters so that the      *)
(* formats "%s-%s" and "%s.%s.svc.cluster.local" are modelled by what     *)
(* they do: concatenation.  The listers are fixed by Init; one Compile    *)
(* step runs the compiler on the route's backendRefs.                     *)
(***************************************************************************)
EXTENDS Naturals, Sequences

CONSTANTS
    Labels,     \* the DNS labels names and namespaces are drawn from
    SvcNames,   \* the Service names a Backend's spec.mcp.serviceName takes
    Hosts,      \* the hostnames a Backend's spec.mcp.hostname takes
    RouteNs,    \* the HTTPRoute's namespace
    Ports,      \* Backend ports
    Nil,        \* an unset optional field (Kind, Namespace, grant Name)
    Absent,     \* the lister has no such object
    MaxRefs     \* bound on the backendRefs of the route

ASSUME ClusterAssumption ==
    /\ RouteNs \in Labels
    /\ SvcNames \subseteq Labels
    /\ Nil \notin Labels /\ Absent \notin Labels
    /\ MaxRefs \in Nat

Empty == <<>>   \* the empty string
Join(x, sep, y) == x \o sep \o y
ClusterLocal == <<"s", "v", "c", ".", "c", "l", "u", "s", "t", "e", "r", ".", "l", "o", "c", "a", "l">>

\* A Backend's spec.mcp: a serviceName, a hostname or neither, and a port.
BackendSpecs ==
    [svc : SvcNames, host : {Empty}, port : Ports]
      \cup [svc : {Empty}, host : Hosts \cup {Empty}, port : Ports]
BackendRefs == [kind : {"Backend", "Service", Nil}, ns : Labels \cup {Nil}, name : Labels]
\* A ReferenceGrant in namespace ns, from HTTPRoutes of fromNs to toKind/toName.
Grants == [ns : Labels, fromNs : Labels, toKind : {"Backend", "Service"},
           toName : Labels \cup {Nil}]

\* The outcome of fetchBackend: a ControllerError reason, or the Backend.
Err(reason) == [ok |-> FALSE, reason |-> reason]
Ok(b) == [ok |-> TRUE, backend |-> b]

VARIABLES
    backends,   \* Backend lister: <<namespace, name>> -> spec or Absent
    services,   \* Service lister: the <<namespace, name>> that exist
    grants,     \* ReferenceGrant lister
    refs,       \* the route rule's backendRefs
    result      \* per ref: the cluster built or the error reason

vars == <<backends, services, grants, refs, result>>

-----------------------------------------------------------------------------
(* isCrossNamespaceRefAllowed (not in the repository): some grant in the  *)
(* target namespace admits the from and to of the reference.              *)
CrossNamespaceRefAllowed(from, to, ns) ==
    \E g \in grants :
        /\ g.ns = ns /\ g.fromNs = from.ns
        /\ g.toKind = to.kind /\ g.toName \in {Nil, to.name}

\* Mutant: the Service looked up in the route's namespace, not the Backend's.
FetchBackendServiceInRouteNs(ref) ==
    LET ns == IF ref.ns = Nil THEN RouteNs ELSE ref.ns
        b  == backends[<<ns, ref.name>>]
    IN IF ref.kind \notin {Nil, "Backend"} THEN Err("InvalidKind")
       ELSE IF ns # RouteNs /\ ~CrossNamespaceRefAllowed([ns |-> RouteNs],
                                   [kind |-> "Service", name |-> ref.name], ns)
            THEN Err("RefNotPermitted")
       ELSE IF b = Absent THEN Err("BackendNotFound")
       ELSE IF b.svc # Empty /\ <<RouteNs, b.svc>> \notin services THEN Err("BackendNotFound")
       ELSE Ok([ns |-> ns, name |-> ref.name, svc |-> b.svc, host |-> b.host,
                port |-> b.port])

(* fetchBackend: the kind check, the namespace default, the ReferenceGrant *)
(* check for a cross-namespace reference (with to = kind Service and the  *)
(* ref's name), the Backend lookup and the Service lookup; the first that *)
(* fails gives the reason, else the Backend.                              *)
FetchBackend(ref) ==
    LET ns == IF ref.ns = Nil THEN RouteNs ELSE ref.ns
        b  == backends[<<ns, ref.name>>]
    IN IF ref.kind \notin {Nil, "Backend"} THEN Err("InvalidKind")
       ELSE IF ns # RouteNs /\ ~CrossNamespaceRefAllowed([ns |-> RouteNs],
                                   [kind |-> "Service", name |-> ref.name], ns)
            THEN Err("RefNotPermitted")
       ELSE IF b = Absent THEN Err("BackendNotFound")
       ELSE IF b.svc # Empty /\ <<ns, b.svc>> \notin services THEN Err("BackendNotFound")
       ELSE Ok([ns |-> ns, name |-> ref.name, svc |-> b.svc, host |-> b.host,
                port |-> b.port])

(* convertBackendToCluster: name "<namespace>-<name>", 5s connect timeout; *)
(* a service gives STRICT_DNS to its cluster-local FQDN, otherwise         *)
(* LOGICAL_DNS to the hostname with an upstream TLS context whose SNI is   *)
(* the hostname.                                                           *)
ConvertBackendToCluster(b) ==
    IF b.svc # Empty
       THEN [name |-> Join(b.ns, <<"-">>, b.name), connectTimeout |-> 5,
             type |-> "STRICT_DNS", sni |-> Nil,
             endpoint |-> <<Join(Join(b.svc, <<".">>, b.ns), <<".">>, ClusterLocal), b.port>>]
       ELSE [name |-> Join(b.ns, <<"-">>, b.name), connectTimeout |-> 5,
             type |-> "LOGICAL_DNS", sni |-> b.host,
             endpoint |-> <<b.host, b.port>>]

(* The compile cycle of spec section 4.2: fetchBackend per backendRef,    *)
(* then convertBackendToCluster (the loop of buildClustersFromBackends)   *)
(* on each Backend it resolved; a ref that failed keeps its reason.  No   *)
(* caller in the repository composes the two, so this follows the spec.  *)
BuildClusters(rs) ==
    [i \in DOMAIN rs |->
        IF FetchBackend(rs[i]).ok
           THEN [ok |-> TRUE, cluster |-> ConvertBackendToCluster(FetchBackend(rs[i]).backend)]
           ELSE FetchBackend(rs[i])]

-----------------------------------------------------------------------------
Init ==
    /\ backends \in [Labels \X Labels -> BackendSpecs \cup {Absent}]
    /\ services \in SUBSET (Labels \X SvcNames)
    /\ grants \in {{}} \cup {{g} : g \in Grants}
    /\ refs \in UNION {[1..n -> BackendRefs] : n \in 1..MaxRefs}
    /\ result = <<>>

(* One run of the compiler on the route's backendRefs. *)
Compile ==
    /\ result = <<>>
    /\ result' = BuildClusters(refs)
    /\ UNCHANGED <<backends, services, grants, refs>>

Next == Compile

Spec == Init /\ [][Next]_vars

-----------------------------------------------------------------------------
\* The namespace a backendRef points into.
RefNs(ref) == IF ref.ns = Nil THEN RouteNs ELSE ref.ns

(* Section 4.2 of the spec: a ref yields a cluster only if it is of kind  *)
(* Backend, the Backend exists in the ref's namespace and so does its     *)
(* Service (if it names one), and a same-namespace ref that passes these  *)
(* checks yields one; the cluster is "<namespace>-<name>", STRICT_DNS to  *)
(* "<service>.<namespace>.svc.cluster.local" without TLS for a Service,  *)
(* LOGICAL_DNS to the hostname with TLS and SNI = hostname otherwise.     *)
ClustersAsSpecified ==
    \A i \in DOMAIN result :
        LET ref == refs[i]
            ns  == RefNs(ref)
            b   == backends[<<ns, ref.name>>]
            ok  == /\ ref.kind \in {Nil, "Backend"}
                   /\ b # Absent
                   /\ b.svc # Empty => <<ns, b.svc>> \in services
        IN /\ result[i].ok => ok
           /\ ns = RouteNs => (result[i].ok <=> ok)
           /\ result[i].ok =>
                 LET c == result[i].cluster IN
                 /\ c.name = ns \o <<"-">> \o ref.name
                 /\ c.connectTimeout = 5
                 /\ IF b.svc # Empty
                       THEN /\ c.type = "STRICT_DNS" /\ c.sni = Nil
                            /\ c.endpoint = <<b.svc \o <<".">> \o ns \o <<".">> \o ClusterLocal,
                                              b.port>>
                       ELSE /\ c.type = "LOGICAL_DNS" /\ c.sni = b.host
                            /\ c.endpoint = <<b.host, b.port>>

(* A Backend in another namespace is used only if a ReferenceGrant there  *)
(* lets HTTPRoutes of the route's namespace refer to that Backend (kind   *)
(* Backend, all names or its name): the cross-namespace check of step 2.  *)
CrossNamespaceNeedsBackendGrant ==
    \A i \in DOMAIN result :
        result[i].ok /\ RefNs(refs[i]) # RouteNs =>
            \E g \in grants :
                /\ g.ns = RefNs(refs[i]) /\ g.fromNs = RouteNs
                /\ g.toKind = "Backend" /\ g.toName \in {Nil, refs[i].name}
=============================================================================
