----------------------------- MODULE RbacCompiler -----------------------------
(***************************************************************************)
(* The RBAC policy compiler of pkg/translator/authPolicy.go and the         *)
(* decision the proxy's RBAC filter takes on what it produces.            *)
(*                                                                         *)
(* rbacConfigFromAuthPolicy lists the AuthPolicies of the Backend's        *)
(* namespace, takes the first whose targetRef is the Backend, compiles one *)
(* Envoy RBAC policy per rule, adds the two built-in policies when the     *)
(* action is ALLOW and returns the RBAC filter configuration.  The lister  *)
(* returns its items in no particular order, so "the first" is any of the  *)
(* matching policies.                                                      *)
(*                                                                         *)
(* Strings are abstracted to model values and small sets: identities and   *)
(* service accounts become the exact values matched on x-user-role, tool   *)
(* names the exact values matched on params.name, policy names the pair    *)
(* <<"rule", index>> or the two fixed names of the built-in policies.      *)
(* Principal and permission lists become sets: the filter ORs them.        *)
(*                                                                         *)
(* The module runs the compiler (Compile) up to twice on one lister state  *)
(* and checks each output against the authorization the spec describes,   *)
(* for every request of a small universe.                                  *)
(***************************************************************************)
EXTENDS Naturals, Sequences, FiniteSets, TLC

CONSTANTS
    Backend,      \* the Backend being compiled (its name)
    OtherBackend, \* another Backend of the namespace
    Ids,          \* identity / service-account strings
    Tools,        \* tool names
    NoRole,       \* no x-user-role header on the request
    NoTool,       \* no params.name in the request metadata
    MaxRules,     \* bound on the rules of an AuthPolicy
    MaxPolicies,  \* bound on the AuthPolicies in the namespace
    MaxCompiles   \* bound on the calls of the compiler on one lister state

ASSUME RbacAssumption ==
    /\ NoRole \notin Ids
    /\ NoTool \notin Tools
    /\ MaxRules \in Nat
    /\ MaxPolicies \in Nat
    /\ MaxCompiles \in Nat

-----------------------------------------------------------------------------
(* AuthPolicy input: the targetRef (kind, name), the action and the rules; *)
(* a rule's Source has Identities and ServiceAccounts, plus its Tools.    *)
Targets == {"Backend", "Service"} \X {Backend, OtherBackend}
Actions == {"ALLOW", "UNSET"}
Rules == [identities : SUBSET Ids, serviceAccounts : SUBSET Ids, tools : SUBSET Tools]
RuleLists == UNION {[1..n -> Rules] : n \in 0..MaxRules}
AuthPolicies == [target : Targets, action : Actions, rules : RuleLists]
NoPolicy == [target |-> <<"none", Backend>>, action |-> "UNSET", rules |-> <<>>]

(* A request as the RBAC filter sees it: the HTTP method, whether the     *)
(* mcp-session-id header is present, x-user-role, and the metadata the   *)
(* mcp_proxy filter publishes (method and params.name).                   *)
RpcMethods == {"initialize", "notifications/initialized", "tools/list", "tools/call", "other"}
Requests == [http : {"GET", "POST", "DELETE"}, session : BOOLEAN,
             role : Ids \cup {NoRole}, rpc : RpcMethods, tool : Tools \cup {NoTool}]

-----------------------------------------------------------------------------
(* findAuthPolicyForBackend: the policies of kind Backend naming it; any  *)
(* of them can come first in the lister's List.                           *)
Candidates(lister) == {p \in lister : p.target = <<"Backend", Backend>>}

FoundPolicies(lister) ==
    IF Candidates(lister) = {} THEN {NoPolicy} ELSE Candidates(lister)

(* rbacActionFromAuthPolicy: ALLOW, whatever the policy says. *)
RbacAction(ap) == "ALLOW"

\* Mutant: a principal built from the Identities only.
RulePrincipalsIdentitiesOnly(rule) ==
    IF rule.identities = {} THEN {}
    ELSE {[t |-> "orIds", ids |-> {[t |-> "header", name |-> "x-user-role", exact |-> s]
                                   : s \in rule.identities}]}

(* The principal of a rule: one OR of exact x-user-role matches over     *)
(* Identities followed by ServiceAccounts, or no principal at all when   *)
(* both lists are empty.                                                  *)
RulePrincipals(rule) ==
    LET sources == rule.identities \cup rule.serviceAccounts
    IN IF sources = {} THEN {}
       ELSE {[t |-> "orIds", ids |-> {[t |-> "header", name |-> "x-user-role", exact |-> s]
                                      : s \in sources}]}

(* The permission of a rule: method = tools/call AND params.name is one  *)
(* of the tools (one exact matcher, or an OR of them); none if no tools. *)
RulePermissions(rule) ==
    IF rule.tools = {} THEN {}
    ELSE {[t |-> "andRules",
           rules |-> {[t |-> "meta", key |-> "method", values |-> {"tools/call"}],
                      [t |-> "meta", key |-> "params.name", values |-> rule.tools]}]}

(* translateAuthPolicyToRBAC: policy "<ns>-<backend>-rule-<i>" per rule. *)
TranslateAuthPolicy(ap) ==
    [nm \in {<<"rule", i - 1>> : i \in DOMAIN ap.rules} |->
        [principals |-> RulePrincipals(ap.rules[nm[2] + 1]),
         permissions |-> RulePermissions(ap.rules[nm[2] + 1])]]

(* buildAllowMCPSessionClosePolicy: DELETE with mcp-session-id, any permission. *)
SessionClosePolicy ==
    [principals |-> {[t |-> "andIds",
                      ids |-> {[t |-> "header", name |-> ":method", exact |-> "DELETE"],
                               [t |-> "present", name |-> "mcp-session-id"]}]},
     permissions |-> {[t |-> "any"]}]

(* buildAllowAnyoneToInitializeAndListToolsPolicy: anyone; method is     *)
(* initialize, notifications/initialized or tools/list, or HTTP GET.     *)
InitAndListPolicy ==
    [principals |-> {[t |-> "any"]},
     permissions |-> {[t |-> "orRules",
                       rules |-> {[t |-> "meta", key |-> "method",
                                   values |-> {"initialize", "notifications/initialized",
                                               "tools/list"}],
                                  [t |-> "header", name |-> ":method", exact |-> "GET"]}]}]

SessionCloseName == <<"allow-mcp-session-close">>
InitAndListName == <<"allow-anyone-to-initialize-and-list-tools">>
BuiltIn == [nm \in {SessionCloseName, InitAndListName} |->
               IF nm = SessionCloseName THEN SessionClosePolicy ELSE InitAndListPolicy]

(* The two assignments rbacPolicies[name] = ...: the built-in policies   *)
(* are written last, over any policy of that name.                        *)
WriteBuiltIns(pols) ==
    [nm \in DOMAIN pols \cup DOMAIN BuiltIn |->
        IF nm \in DOMAIN BuiltIn THEN BuiltIn[nm] ELSE pols[nm]]

(* rbacConfigFromAuthPolicy for the policy found (NoPolicy if none). *)
RbacConfig(ap) ==
    LET pols == IF ap = NoPolicy THEN <<>> ELSE TranslateAuthPolicy(ap)
    IN [action |-> RbacAction(ap),
        policies |-> IF RbacAction(ap) = "ALLOW" THEN WriteBuiltIns(pols) ELSE pols]

-----------------------------------------------------------------------------
(* The proxy's RBAC filter: a header matcher, a principal, a permission,  *)
(* a policy (some principal and some permission match) and the action.    *)
HeaderMatches(h, req) ==
    CASE h.name = "x-user-role"   -> req.role = h.exact
      [] h.name = ":method" /\ h.t = "header" -> req.http = h.exact
      [] h.name = "mcp-session-id" -> req.session

PrincipalMatches(pr, req) ==
    CASE pr.t = "any"    -> TRUE
      [] pr.t = "orIds"  -> \E h \in pr.ids : HeaderMatches(h, req)
      [] pr.t = "andIds" -> \A h \in pr.ids : HeaderMatches(h, req)

LeafMatches(r, req) ==
    CASE r.t = "meta" /\ r.key = "method"      -> req.rpc \in r.values
      [] r.t = "meta" /\ r.key = "params.name" -> req.tool \in r.values
      [] r.t = "header"                        -> req.http = r.exact

PermissionMatches(pm, req) ==
    CASE pm.t = "any"      -> TRUE
      [] pm.t = "andRules" -> \A r \in pm.rules : LeafMatches(r, req)
      [] pm.t = "orRules"  -> \E r \in pm.rules : LeafMatches(r, req)

PolicyMatches(pol, req) ==
    /\ \E pr \in pol.principals : PrincipalMatches(pr, req)
    /\ \E pm \in pol.permissions : PermissionMatches(pm, req)

Allowed(cfg, req) ==
    LET hit == \E nm \in DOMAIN cfg.policies : PolicyMatches(cfg.policies[nm], req)
    IN IF cfg.action = "ALLOW" THEN hit ELSE ~hit

-----------------------------------------------------------------------------
VARIABLES
    lister,    \* the AuthPolicies of the Backend's namespace
    compiled   \* outputs of the compiler, with the policy each was built from

vars == <<lister, compiled>>

Range(f) == {f[x] : x \in DOMAIN f}

Init ==
    /\ lister \in {Range(f) : f \in UNION {[1..n -> AuthPolicies] : n \in 0..MaxPolicies}}
    /\ compiled = <<>>

(* One call of rbacConfigFromAuthPolicy on the current lister state. *)
Compile ==
    /\ Len(compiled) < MaxCompiles
    /\ \E ap \in FoundPolicies(lister) :
          compiled' = Append(compiled, [from |-> ap, cfg |-> RbacConfig(ap)])
    /\ UNCHANGED lister

Next == Compile

Spec == Init /\ [][Next]_vars

-----------------------------------------------------------------------------
(* The requests the spec lets anyone make (sections 3, 4.1, 7, 8):       *)
(* session close (DELETE with a session id), handshake, tool listing and  *)
(* every GET.                                                              *)
BaselineAllowed(req) ==
    \/ req.http = "DELETE" /\ req.session
    \/ req.http = "GET"
    \/ req.rpc \in {"initialize", "notifications/initialized", "tools/list"}

(* A rule's Source matches a caller whose role is among its Identities or *)
(* ServiceAccounts (an OR across both lists), and, by the doc comment of  *)
(* the Source type, any caller when the Source is omitted.               *)
SourceMatches(rule, role) ==
    LET sources == rule.identities \cup rule.serviceAccounts
    IN  sources = {} \/ role \in sources

(* The authorization the spec and the API's doc comments give a Backend:  *)
(* the baseline, and a tools/call when a rule lists the tool and its      *)
(* Source matches the caller; a rule with no tools allows nothing.        *)
SpecAllowed(ap, req) ==
    \/ BaselineAllowed(req)
    \/ \E i \in DOMAIN ap.rules :
          /\ req.rpc = "tools/call"
          /\ SourceMatches(ap.rules[i], req.role)
          /\ req.tool \in ap.rules[i].tools

(* The same, through the rules that name their callers explicitly. *)
NamedSourceAllowed(ap, req) ==
    \/ BaselineAllowed(req)
    \/ \E i \in DOMAIN ap.rules :
          /\ req.rpc = "tools/call"
          /\ req.role \in ap.rules[i].identities \cup ap.rules[i].serviceAccounts
          /\ req.tool \in ap.rules[i].tools

(* Every filter the compiler outputs is built from one of the             *)
(* AuthPolicies that target the Backend (or from none, when none does;   *)
(* spec section 9: the first match in list order wins, the others are    *)
(* ignored, never merged), and for that policy it never allows a request  *)
(* the spec denies, and allows every request the spec grants through the  *)
(* baseline or through a rule that names the caller in its Source.  The   *)
(* one remaining case, a rule with an omitted Source, is the run          *)
(* rbac_omitted.                                                           *)
AuthorizationAsSpecified ==
    \A k \in 1..Len(compiled) :
        \E ap \in FoundPolicies(lister) :
            \A req \in Requests :
                /\ Allowed(compiled[k].cfg, req) => SpecAllowed(ap, req)
                /\ NamedSourceAllowed(ap, req) => Allowed(compiled[k].cfg, req)

(* A rule whose Source is omitted matches any source (the doc comment of  *)
(* the Source type): a tools/call of a tool the rule lists is allowed     *)
(* whatever the caller's role.                                            *)
OmittedSourceMatchesAnyone ==
    \A k \in 1..Len(compiled), req \in Requests :
        (/\ \E i \in DOMAIN compiled[k].from.rules :
               LET rule == compiled[k].from.rules[i] IN
               /\ rule.identities = {} /\ rule.serviceAccounts = {}
               /\ req.tool \in rule.tools
         /\ req.rpc = "tools/call")
        => Allowed(compiled[k].cfg, req)
=============================================================================
