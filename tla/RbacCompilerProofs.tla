-------------------------- MODULE RbacCompilerProofs --------------------------
(***************************************************************************)
(* Proofs about rbacConfigFromAuthPolicy and the RBAC filter it           *)
(* configures.                                                             *)
(*                                                                         *)
(* The argument is one policy at a time.  The session-close policy        *)
(* matches exactly a DELETE with a session id (SessionMatch), the         *)
(* initialize-and-list policy exactly a GET or a handshake or listing     *)
(* method (InitMatch), and the policy of rule i exactly a tools/call of   *)
(* one of its tools by one of its sources (RuleMatch).  The built-in      *)
(* names never collide with the rule names, so the map holds all of them  *)
(* (PolicyMap), and the ALLOW filter allows their union: NamedSourceAllowed *)
(* (FilterAsSpecified).  A rule that names the caller matches its Source, *)
(* so that union is within what the spec allows (NamedWithinSpec).        *)
(***************************************************************************)
EXTENDS RbacCompiler, TLAPS

USE RbacAssumption

\* The outputs the compiler can produce from lister state l.
Outputs(l) == {[from |-> ap, cfg |-> RbacConfig(ap)] : ap \in FoundPolicies(l)}

IInv ==
    /\ lister \subseteq AuthPolicies
    /\ compiled \in Seq(Outputs(lister))

\* The requests rule rl admits under the spec.
RuleAdmits(rl, req) ==
    /\ req.rpc = "tools/call"
    /\ req.role \in rl.identities \cup rl.serviceAccounts
    /\ req.tool \in rl.tools

RulePolicy(rl) == [principals |-> RulePrincipals(rl), permissions |-> RulePermissions(rl)]
RuleName(i) == <<"rule", i - 1>>

\* buildAllowMCPSessionClosePolicy admits DELETE requests with a session id.
LEMMA SessionMatch ==
    ASSUME NEW req \in Requests
    PROVE  PolicyMatches(SessionClosePolicy, req) <=> (req.http = "DELETE" /\ req.session)
<1> DEFINE h1 == [t |-> "header", name |-> ":method", exact |-> "DELETE"]
           h2 == [t |-> "present", name |-> "mcp-session-id"]
           pr == [t |-> "andIds", ids |-> {h1, h2}]
<1>1. HeaderMatches(h1, req) <=> req.http = "DELETE"
  BY DEF HeaderMatches
<1>2. HeaderMatches(h2, req) <=> req.session
  BY DEF HeaderMatches
<1>3. PrincipalMatches(pr, req) <=> HeaderMatches(h1, req) /\ HeaderMatches(h2, req)
  BY DEF PrincipalMatches
<1>4. PermissionMatches([t |-> "any"], req)
  BY DEF PermissionMatches
<1>5. SessionClosePolicy = [principals |-> {pr}, permissions |-> {[t |-> "any"]}]
  BY DEF SessionClosePolicy
<1> HIDE DEF h1, h2, pr
<1>6. QED
  BY <1>1, <1>2, <1>3, <1>4, <1>5 DEF PolicyMatches

\* buildAllowAnyoneToInitializeAndListToolsPolicy admits GETs and the
\* handshake and tool-listing methods, from anyone.
LEMMA InitMatch ==
    ASSUME NEW req \in Requests
    PROVE  PolicyMatches(InitAndListPolicy, req) <=>
               (req.http = "GET" \/ req.rpc \in {"initialize", "notifications/initialized", "tools/list"})
<1> DEFINE r1 == [t |-> "meta", key |-> "method",
                  values |-> {"initialize", "notifications/initialized", "tools/list"}]
           r2 == [t |-> "header", name |-> ":method", exact |-> "GET"]
           pm == [t |-> "orRules", rules |-> {r1, r2}]
<1>1. LeafMatches(r1, req) <=> req.rpc \in {"initialize", "notifications/initialized", "tools/list"}
  BY DEF LeafMatches
<1>2. LeafMatches(r2, req) <=> req.http = "GET"
  BY DEF LeafMatches
<1>3. PermissionMatches(pm, req) <=> LeafMatches(r1, req) \/ LeafMatches(r2, req)
  BY DEF PermissionMatches
<1>4. PrincipalMatches([t |-> "any"], req)
  BY DEF PrincipalMatches
<1>5. InitAndListPolicy = [principals |-> {[t |-> "any"]}, permissions |-> {pm}]
  BY DEF InitAndListPolicy
<1> HIDE DEF r1, r2, pm
<1>6. QED
  BY <1>1, <1>2, <1>3, <1>4, <1>5 DEF PolicyMatches

\* The policy translateAuthPolicyToRBAC builds for a rule admits exactly
\* a tools/call of one of the rule's tools by one of its sources.
LEMMA RuleMatch ==
    ASSUME NEW rl \in Rules, NEW req \in Requests
    PROVE  PolicyMatches(RulePolicy(rl), req) <=> RuleAdmits(rl, req)
<1> DEFINE sources == rl.identities \cup rl.serviceAccounts
<1>1. (\E pr \in RulePrincipals(rl) : PrincipalMatches(pr, req)) <=> req.role \in sources
  <2>1. CASE sources = {}
    BY <2>1 DEF RulePrincipals
  <2>2. CASE sources # {}
    <3> DEFINE H == {[t |-> "header", name |-> "x-user-role", exact |-> s] : s \in sources}
    <3>1. RulePrincipals(rl) = {[t |-> "orIds", ids |-> H]}
      BY <2>2 DEF RulePrincipals
    <3>2. \A s \in sources :
            HeaderMatches([t |-> "header", name |-> "x-user-role", exact |-> s], req) <=> req.role = s
      BY DEF HeaderMatches
    <3>3. PrincipalMatches([t |-> "orIds", ids |-> H], req) <=> \E h \in H : HeaderMatches(h, req)
      BY DEF PrincipalMatches
    <3>4. (\E h \in H : HeaderMatches(h, req)) <=> req.role \in sources
      BY <3>2
    <3>5. QED
      BY <3>1, <3>3, <3>4
  <2>3. QED
    BY <2>1, <2>2
<1>2. (\E pm \in RulePermissions(rl) : PermissionMatches(pm, req))
        <=> req.rpc = "tools/call" /\ req.tool \in rl.tools
  <2>1. CASE rl.tools = {}
    BY <2>1 DEF RulePermissions
  <2>2. CASE rl.tools # {}
    <3> DEFINE m1 == [t |-> "meta", key |-> "method", values |-> {"tools/call"}]
               m2 == [t |-> "meta", key |-> "params.name", values |-> rl.tools]
    <3>1. RulePermissions(rl) = {[t |-> "andRules", rules |-> {m1, m2}]}
      BY <2>2 DEF RulePermissions
    <3>2. LeafMatches(m1, req) <=> req.rpc = "tools/call"
      BY DEF LeafMatches
    <3>3. LeafMatches(m2, req) <=> req.tool \in rl.tools
      BY DEF LeafMatches
    <3>4. PermissionMatches([t |-> "andRules", rules |-> {m1, m2}], req)
            <=> LeafMatches(m1, req) /\ LeafMatches(m2, req)
      BY DEF PermissionMatches
    <3> HIDE DEF m1, m2
    <3>5. QED
      BY <3>1, <3>2, <3>3, <3>4
  <2>3. QED
    BY <2>1, <2>2
<1>3. QED
  BY <1>1, <1>2 DEF PolicyMatches, RulePolicy, RuleAdmits

\* The map rbacConfigFromAuthPolicy returns holds both built-in policies
\* and, under names that never collide with theirs, one policy per rule.
LEMMA PolicyMap ==
    ASSUME NEW ap \in AuthPolicies \cup {NoPolicy}
    PROVE  LET P == RbacConfig(ap).policies
           IN /\ RbacConfig(ap).action = "ALLOW"
              /\ DOMAIN P = {SessionCloseName, InitAndListName}
                              \cup {RuleName(i) : i \in DOMAIN ap.rules}
              /\ P[SessionCloseName] = SessionClosePolicy
              /\ P[InitAndListName] = InitAndListPolicy
              /\ \A i \in DOMAIN ap.rules : P[RuleName(i)] = RulePolicy(ap.rules[i])
<1> DEFINE pols == IF ap = NoPolicy THEN <<>> ELSE TranslateAuthPolicy(ap)
<1>1. PICK n \in 0..MaxRules : DOMAIN ap.rules = 1..n /\ \A i \in 1..n : ap.rules[i] \in Rules
  <2>1. CASE ap = NoPolicy
    <3>1. DOMAIN ap.rules = 1..0
      BY <2>1 DEF NoPolicy
    <3>2. QED
      BY <3>1
  <2>2. CASE ap \in AuthPolicies
    BY <2>2 DEF AuthPolicies, RuleLists
  <2>3. QED
    BY <2>1, <2>2
<1>2. RbacConfig(ap) = [action |-> "ALLOW", policies |-> WriteBuiltIns(pols)]
  BY DEF RbacConfig, RbacAction
<1>3. DOMAIN pols = {RuleName(i) : i \in DOMAIN ap.rules}
      /\ \A i \in DOMAIN ap.rules : pols[RuleName(i)] = RulePolicy(ap.rules[i])
  <2>1. CASE ap = NoPolicy
    <3>1. DOMAIN ap.rules = {} /\ pols = <<>>
      BY <2>1 DEF NoPolicy
    <3>2. QED
      BY <3>1
  <2>2. CASE ap \in AuthPolicies
    <3>1. ap # NoPolicy
      BY <2>2 DEF AuthPolicies, Targets, NoPolicy
    <3>2. pols = TranslateAuthPolicy(ap)
      BY <3>1
    <3>3. \A i \in DOMAIN ap.rules : RuleName(i)[2] + 1 = i
      BY <1>1 DEF RuleName
    <3>4. QED
      BY <1>1, <3>2, <3>3 DEF TranslateAuthPolicy, RuleName, RulePolicy
  <2>3. QED
    BY <2>1, <2>2
<1>4. \A i \in DOMAIN ap.rules : RuleName(i) \notin {SessionCloseName, InitAndListName}
  BY DEF RuleName, SessionCloseName, InitAndListName
<1>5. SessionCloseName # InitAndListName
  BY DEF SessionCloseName, InitAndListName
<1>6. DOMAIN BuiltIn = {SessionCloseName, InitAndListName}
      /\ BuiltIn[SessionCloseName] = SessionClosePolicy
      /\ BuiltIn[InitAndListName] = InitAndListPolicy
  BY <1>5 DEF BuiltIn
<1> HIDE DEF pols
<1>7. QED
  BY <1>2, <1>3, <1>4, <1>6 DEF WriteBuiltIns

\* The ALLOW filter compiled from a policy allows the baseline and the
\* tools/calls of callers a rule names.
LEMMA FilterAsSpecified ==
    ASSUME NEW ap \in AuthPolicies \cup {NoPolicy}, NEW req \in Requests
    PROVE  Allowed(RbacConfig(ap), req) <=> NamedSourceAllowed(ap, req)
<1> DEFINE P == RbacConfig(ap).policies
           Ns == {SessionCloseName, InitAndListName} \cup {RuleName(i) : i \in DOMAIN ap.rules}
<1>1. /\ RbacConfig(ap).action = "ALLOW"
      /\ DOMAIN P = Ns
      /\ P[SessionCloseName] = SessionClosePolicy
      /\ P[InitAndListName] = InitAndListPolicy
      /\ \A i \in DOMAIN ap.rules : P[RuleName(i)] = RulePolicy(ap.rules[i])
  BY PolicyMap
<1>2. \A i \in DOMAIN ap.rules : ap.rules[i] \in Rules
  BY DEF AuthPolicies, RuleLists, NoPolicy
<1>3. Allowed(RbacConfig(ap), req) <=> \E nm \in Ns : PolicyMatches(P[nm], req)
  BY <1>1 DEF Allowed
<1>4. (\E nm \in Ns : PolicyMatches(P[nm], req))
        <=> \/ PolicyMatches(SessionClosePolicy, req)
            \/ PolicyMatches(InitAndListPolicy, req)
            \/ \E i \in DOMAIN ap.rules : PolicyMatches(RulePolicy(ap.rules[i]), req)
  BY <1>1
<1>5. (\E i \in DOMAIN ap.rules : PolicyMatches(RulePolicy(ap.rules[i]), req))
        <=> \E i \in DOMAIN ap.rules : RuleAdmits(ap.rules[i], req)
  BY <1>2, RuleMatch
<1> HIDE DEF P, Ns
<1>6. QED
  BY <1>3, <1>4, <1>5, SessionMatch, InitMatch DEF NamedSourceAllowed, BaselineAllowed,
                                                    RuleAdmits

\* A rule that names the caller among its sources matches the caller.
LEMMA NamedWithinSpec ==
    ASSUME NEW ap, NEW req, NamedSourceAllowed(ap, req)
    PROVE  SpecAllowed(ap, req)
BY DEF NamedSourceAllowed, SpecAllowed, SourceMatches

LEMMA InitIInv == Init => IInv
<1> SUFFICES ASSUME Init PROVE IInv
  OBVIOUS
<1>1. PICK f \in UNION {[1..n -> AuthPolicies] : n \in 0..MaxPolicies} : lister = Range(f)
  BY DEF Init
<1>2. lister \subseteq AuthPolicies
  BY <1>1 DEF Range
<1>3. compiled \in Seq(Outputs(lister))
  BY DEF Init
<1>4. QED
  BY <1>2, <1>3 DEF IInv

LEMMA NextIInv == IInv /\ [Next]_vars => IInv'
<1> SUFFICES ASSUME IInv, [Next]_vars PROVE IInv'
  OBVIOUS
<1>1. CASE Compile
  <2>1. PICK ap \in FoundPolicies(lister) :
            compiled' = Append(compiled, [from |-> ap, cfg |-> RbacConfig(ap)])
    BY <1>1 DEF Compile
  <2>2. lister' = lister
    BY <1>1 DEF Compile
  <2>3. [from |-> ap, cfg |-> RbacConfig(ap)] \in Outputs(lister)
    BY DEF Outputs
  <2>4. QED
    BY <2>1, <2>2, <2>3 DEF IInv
<1>2. CASE UNCHANGED vars
  BY <1>2 DEF IInv, vars
<1>3. QED
  BY <1>1, <1>2 DEF Next

LEMMA IInvSpecified == IInv => AuthorizationAsSpecified
<1> SUFFICES ASSUME IInv, NEW k \in 1..Len(compiled)
             PROVE  \E ap \in FoundPolicies(lister) :
                        \A req \in Requests :
                            /\ Allowed(compiled[k].cfg, req) => SpecAllowed(ap, req)
                            /\ NamedSourceAllowed(ap, req) => Allowed(compiled[k].cfg, req)
  BY DEF AuthorizationAsSpecified
<1>1. PICK ap \in FoundPolicies(lister) : compiled[k] = [from |-> ap, cfg |-> RbacConfig(ap)]
  BY DEF IInv, Outputs
<1>2. ap \in AuthPolicies \cup {NoPolicy}
  BY DEF IInv, FoundPolicies, Candidates
<1>3. \A req \in Requests : Allowed(compiled[k].cfg, req) <=> NamedSourceAllowed(ap, req)
  BY <1>1, <1>2, FilterAsSpecified
<1>4. \A req \in Requests : NamedSourceAllowed(ap, req) => SpecAllowed(ap, req)
  BY NamedWithinSpec
<1>5. QED
  BY <1>3, <1>4

(* For any namespace and any number of AuthPolicies and rules, every RBAC *)
(* filter rbacConfigFromAuthPolicy produces for a Backend is built from   *)
(* one AuthPolicy that targets it (or none when none does), never allows  *)
(* a request the spec denies for that policy, and allows every request    *)
(* the spec grants through the baseline (session close, handshake, tool   *)
(* listing, GET) or through a rule that lists the tool and names the      *)
(* caller among its identities or service accounts.                       *)
THEOREM AuthorizationCompiledAsSpecified == Spec => []AuthorizationAsSpecified
<1>1. Init => IInv
  BY InitIInv
<1>2. IInv /\ [Next]_vars => IInv'
  BY NextIInv
<1>3. IInv => AuthorizationAsSpecified
  BY IInvSpecified
<1>4. QED
  BY <1>1, <1>2, <1>3, PTL DEF Spec
=============================================================================
