---------------------------- MODULE ExternalAuth ----------------------------
(* Plugins that let somebody else decide: opa and forward-auth ask a policy  *)
(* service, authz-casbin evaluates a policy of its own or of its plugin       *)
(* metadata, authz-keycloak asks a token endpoint with permissions it may     *)
(* look up with a cached service-account token, chaitin-waf shows the request *)
(* to one of its detection nodes.                                             *)
(*                                                                            *)
(* Requests of one plugin instance interleave: each takes one step per lock   *)
(* or call to the service.  A service answers with one of a few outcomes; a   *)
(* header is a name with the party its value came from.                       *)
EXTENDS Integers, Sequences, FiniteSets

CONSTANTS Requests,   \* requests in flight
          Settings,   \* plugin settings the instance may run with
          Names,      \* headers a service may set
          Policies,   \* contents of authz-casbin metadata: valid?, users it allows
          NodeLists,  \* contents of chaitin-waf metadata: sequences of nodes
          Cooldown,   \* unhealthyNodeCooldown
          Instances,  \* instances of authz-keycloak alive at once: routes and generations
          Grants,     \* what a token endpoint grants: life, refreshed, refreshLife (0: not said)
          MaxClock,   \* bound: the clock stops here
          MaxWrites   \* bound: metadata writes

VARIABLES cfg,       \* the instance's settings
          clock,
          meta,      \* index of the metadata content in place, 0 when absent
          writes,    \* metadata writes so far
          enforcer,  \* authz-casbin: content the cached enforcer was built from, or 0
          wafcache,  \* chaitin-waf: metadata bytes and the nodes built under them
          picker,    \* chaitin-waf: node list, next index, node -> unhealthy until
          tokens,    \* authz-keycloak: instance, or Shared -> service-account token cached;
                     \* "granted" is history, the end the endpoint gave the refresh token
          found,     \* authz-keycloak: instance, or Shared -> discovery document cached;
                     \* "at" is history, when it was fetched
          failures,  \* history: node -> last failure not followed by a success
          reqs

vars == <<cfg, clock, meta, writes, enforcer, wafcache, picker, tokens, found, failures, reqs>>

NoNode == "none"
Shared == "shared"
NoDocument == [exp |-> 0, at |-> 0, names |-> {}]
NoToken == [held |-> FALSE, exp |-> 0, cacheExp |-> 0, refresh |-> FALSE, refreshExp |-> 0, granted |-> 0]
Origins == {"client", "service", "absent"}

(* Settings after the defaults.                                              *)
OPAConfigs == [plugin : {"opa"}, names : SUBSET Names]
ForwardConfigs == [plugin : {"forward"}, degrade : BOOLEAN, onError : {403, 503},
                   post : BOOLEAN, limit : Nat, names : SUBSET Names]
CasbinConfigs == [plugin : {"casbin"}, own : BOOLEAN]
KeycloakConfigs == [plugin : {"keycloak"}, lazy : BOOLEAN, permissions : Nat,
                    enforcing : BOOLEAN, redirect : BOOLEAN, discovery : BOOLEAN,
                    life : Nat, refreshLife : Nat, leeway : Nat, ttl : Nat]
ChaitinConfigs == [plugin : {"chaitin"}, mode : {"off", "monitor", "block"}]

ExternalConfig ==
  /\ \A s \in Settings :
       \/ s \in OPAConfigs \/ s \in ForwardConfigs \/ s \in CasbinConfigs
       \/ s \in KeycloakConfigs \/ s \in ChaitinConfigs
  /\ Policies \in Seq([valid : BOOLEAN, allows : SUBSET {"alice", "anonymous"}])
  /\ \A i \in DOMAIN NodeLists : Len(NodeLists[i]) >= 1
  /\ Cooldown \in Nat \ {0} /\ MaxClock \in Nat /\ MaxWrites \in Nat
  /\ Grants \subseteq [life : Nat, refreshed : BOOLEAN, refreshLife : Nat]
  /\ Shared \notin Instances

(* What a client sends: whom it says it is, what it shows authz-keycloak (a  *)
(* bearer token or a password-grant form), a body, and whether the match     *)
(* rules of chaitin-waf select it.                                           *)
Shows == {"bearer", "nothing", "form", "badform"}
Clients == [user : {"alice", "anonymous"}, shows : Shows, body : 0 .. 2, selected : BOOLEAN]
NoClient == [user |-> "anonymous", shows |-> "bearer", body |-> 0, selected |-> FALSE]

Idle == [phase |-> "idle", in |-> NoClient, hdr |-> [n \in Names |-> "client"], body |-> 0,
         found |-> 0, now |-> 0, inst |-> Shared, goal |-> "none", node |-> NoNode, nodes |-> <<>>, token |-> NoToken,
         answer |-> "none", status |-> 0]

Init ==
  /\ cfg \in Settings
  /\ clock = 0 /\ meta \in {0, 1} /\ writes = 0
  /\ enforcer = 0
  /\ wafcache = [valid |-> FALSE, raw |-> 0, nodes |-> <<>>]
  /\ picker = [list |-> <<>>, next |-> 1, bad |-> <<>>]
  /\ tokens = [i \in Instances \union {Shared} |-> NoToken]
  /\ found = [i \in Instances \union {Shared} |-> NoDocument]
  /\ failures = <<>>
  /\ reqs = [r \in Requests |-> Idle]

Finish(r, status, hdr, answer) ==
  LET refused == [Idle EXCEPT !.phase = "done", !.status = status] IN
  reqs' = [reqs EXCEPT ![r] =
             IF status # 200 THEN refused
             ELSE [refused EXCEPT !.hdr = hdr, !.answer = answer, !.in = reqs[r].in,
                                  !.body = reqs[r].body, !.found = reqs[r].found]]
Goto(r, phase) == reqs' = [reqs EXCEPT ![r].phase = phase]

Contents == IF cfg.plugin = "casbin" THEN DOMAIN Policies ELSE DOMAIN NodeLists

(* A request of the client arrives.                                          *)
Arrive(r) ==
  /\ reqs[r].phase \in {"idle", "done"}
  /\ \E c \in Clients :
       /\ (cfg.plugin # "forward" => c.body = 1) /\ (cfg.plugin # "casbin" => c.user = "alice")
       /\ (cfg.plugin # "keycloak" => c.shows = "bearer") /\ (cfg.plugin # "chaitin" => c.selected)
       /\ reqs' = [reqs EXCEPT ![r] = [Idle EXCEPT !.phase = "start", !.in = c, !.body = c.body]]
  /\ UNCHANGED <<cfg, clock, meta, writes, enforcer, wafcache, picker, tokens, found, failures>>

(* The store applies a plugin_metadata event.                                *)
SetMetadata ==
  /\ cfg.plugin \in {"casbin", "chaitin"} /\ writes < MaxWrites
  /\ meta' \in ({0} \union Contents) \ {meta} /\ writes' = writes + 1
  /\ UNCHANGED <<cfg, clock, enforcer, wafcache, picker, tokens, found, failures, reqs>>

Tick ==
  /\ clock < MaxClock /\ clock' = clock + 1
  /\ cfg.plugin \in {"keycloak", "chaitin"}
  /\ UNCHANGED <<cfg, meta, writes, enforcer, wafcache, picker, tokens, found, failures, reqs>>

(***************************************************************************)
(* opa                                                                       *)
(***************************************************************************)
OPAAnswers == {"unreachable", "status", "undecodable", "missing",
               "allow", "allow_headers", "deny", "deny_status", "deny_badstatus"}

(* The configured headers are the service's or nobody's.                    *)
CopyHeadersToUpstream(hdr, answer) ==
  [n \in Names |->
     IF n \notin cfg.names THEN hdr[n]
     ELSE IF answer = "allow_headers" THEN "service" ELSE "absent"]

(* A failed call is 403, every other failure to get a decision 503.         *)
QueryOPA(answer) == IF answer = "unreachable" THEN 403
                    ELSE IF answer \in {"status", "undecodable", "missing"} THEN 503 ELSE 0

OPAHandler(r) ==
  /\ cfg.plugin = "opa" /\ reqs[r].phase = "start"
  /\ \E a \in OPAAnswers :
       LET hdr == reqs[r].hdr IN
       \/ /\ QueryOPA(a) # 0 /\ Finish(r, QueryOPA(a), hdr, a)
       \/ /\ a = "deny" /\ Finish(r, 403, hdr, a)
       \/ /\ a = "deny_status" /\ Finish(r, 401, hdr, a)
       \/ /\ a = "deny_badstatus" /\ Finish(r, 503, hdr, a)
       \/ /\ a \in {"allow", "allow_headers"}
          /\ Finish(r, 200, CopyHeadersToUpstream(hdr, a), a)
  /\ UNCHANGED <<cfg, clock, meta, writes, enforcer, wafcache, picker, tokens, found, failures>>

(***************************************************************************)
(* forward-auth                                                              *)
(***************************************************************************)
ForwardAnswers == {"unreachable", "ok", "ok_headers", "redirect", "refused"}

CopyConfiguredHeaders(hdr, answer) ==
  [n \in Names |->
     IF n \notin cfg.names THEN hdr[n]
     ELSE IF answer = "ok_headers" THEN "service" ELSE "absent"]

(* With POST the body is read up to one byte past the limit and what was     *)
(* read is put back for the upstream.                                        *)
Authorized(r) ==
  IF cfg.post /\ reqs[r].in.body > cfg.limit THEN [body |-> cfg.limit + 1, large |-> TRUE]
  ELSE [body |-> reqs[r].in.body, large |-> FALSE]

Authorize(r) ==
  /\ cfg.plugin = "forward" /\ reqs[r].phase = "start"
  /\ LET body == Authorized(r) IN
     reqs' = [reqs EXCEPT ![r].body = body.body, ![r].status = IF body.large THEN 413 ELSE 0,
                          ![r].phase = IF body.large THEN "done" ELSE "asked"]
  /\ UNCHANGED <<cfg, clock, meta, writes, enforcer, wafcache, picker, tokens, found, failures>>

ForwardHandler(r) ==
  /\ cfg.plugin = "forward" /\ reqs[r].phase = "asked"
  /\ \E a \in ForwardAnswers :
       LET hdr == reqs[r].hdr IN
       \/ /\ a = "unreachable" /\ Finish(r, IF cfg.degrade THEN 200 ELSE cfg.onError, hdr, a)
       \/ /\ a = "redirect" /\ Finish(r, 302, hdr, a)
       \/ /\ a = "refused" /\ Finish(r, 401, hdr, a)
       \/ /\ a \in {"ok", "ok_headers"} /\ Finish(r, 200, CopyConfiguredHeaders(hdr, a), a)
  /\ UNCHANGED <<cfg, clock, meta, writes, enforcer, wafcache, picker, tokens, found, failures>>

(***************************************************************************)
(* authz-casbin                                                              *)
(***************************************************************************)
NoEnforcer == 0
Usable(content) == content # 0 /\ Policies[content].valid

(* The metadata is read before the lock: content 0 is a missing document.    *)
CurrentEnforcer(r) ==
  /\ cfg.plugin = "casbin" /\ reqs[r].phase = "start"
  /\ \/ /\ cfg.own /\ reqs' = [reqs EXCEPT ![r].phase = "enforce", ![r].found = 1]
     \/ /\ ~cfg.own /\ meta = 0 /\ Finish(r, 503, reqs[r].hdr, "none")
     \/ /\ ~cfg.own /\ meta # 0 /\ reqs' = [reqs EXCEPT ![r].phase = "locked", ![r].found = meta]
  /\ UNCHANGED <<cfg, clock, meta, writes, enforcer, wafcache, picker, tokens, found, failures>>

EnforcerFor_AnyBuilt(read) == IF enforcer # NoEnforcer THEN enforcer
                               ELSE IF Usable(read) THEN read ELSE NoEnforcer

(* Under the lock: the cached enforcer if it was built from the same         *)
(* content, else a new one, kept unless it cannot be built.                  *)
EnforcerFor(read) == IF enforcer = read THEN enforcer
                      ELSE IF Usable(read) THEN read ELSE NoEnforcer

MetadataEnforcer(r) ==
  /\ reqs[r].phase = "locked"
  /\ LET e == EnforcerFor(reqs[r].found) IN
     \/ /\ e = NoEnforcer /\ Finish(r, 503, reqs[r].hdr, "none") /\ UNCHANGED enforcer
     \/ /\ e # NoEnforcer /\ enforcer' = e
        /\ reqs' = [reqs EXCEPT ![r].phase = "enforce", ![r].now = e]
  /\ UNCHANGED <<cfg, clock, meta, writes, wafcache, picker, tokens, found, failures>>

CasbinHandler(r) ==
  /\ cfg.plugin = "casbin" /\ reqs[r].phase = "enforce"
  /\ LET policy == IF cfg.own THEN Policies[1] ELSE Policies[reqs[r].now] IN
     Finish(r, IF reqs[r].in.user \in policy.allows THEN 200 ELSE 403, reqs[r].hdr, "none")
  /\ UNCHANGED <<cfg, clock, meta, writes, enforcer, wafcache, picker, tokens, found, failures>>

(***************************************************************************)
(* authz-keycloak                                                            *)
(***************************************************************************)
ValidTokenCache(t, now) == t.held /\ now < t.exp /\ now < t.cacheExp

Larger(a, b) == IF a > b THEN a ELSE b
Kept(life, default) == Larger((IF life = 0 THEN default ELSE life) - 1 - cfg.leeway, 1)

CachedToken_Renewed(grant, previous) ==
  LET refresh == grant.refreshed \/ previous.refresh IN
  [held |-> TRUE, exp |-> clock + Kept(grant.life, cfg.life), cacheExp |-> clock + cfg.ttl,
   refresh |-> refresh,
   refreshExp |-> IF refresh THEN clock + Kept(grant.refreshLife, cfg.refreshLife) ELSE 0,
   granted |-> IF ~grant.refreshed THEN previous.granted
               ELSE clock + Larger(grant.refreshLife, cfg.refreshLife)]

(* What is kept of a grant: one second and the leeway less than the endpoint *)
(* (or the default) said, never less than a second; without a new refresh    *)
(* token the old one and its end stay.                                       *)
CachedToken(grant, previous) ==
  [held |-> TRUE, exp |-> clock + Kept(grant.life, cfg.life), cacheExp |-> clock + cfg.ttl,
   refresh |-> grant.refreshed \/ previous.refresh,
   refreshExp |-> IF ~grant.refreshed THEN previous.refreshExp
                  ELSE clock + Kept(grant.refreshLife, cfg.refreshLife),
   granted |-> IF ~grant.refreshed THEN previous.granted
               ELSE clock + Larger(grant.refreshLife, cfg.refreshLife)]

(* Where a request goes for an endpoint: straight on when it is configured,  *)
(* through the discovery document when not.                                  *)
TokenEndpoint(r, goal) ==
  IF cfg.discovery THEN reqs' = [reqs EXCEPT ![r].phase = "discover", ![r].goal = goal]
  ELSE reqs' = [reqs EXCEPT ![r].phase = goal]
ResourceRegistrationEndpoint(r) == TokenEndpoint(r, "resources")

Needs(goal) == IF goal = "resources" THEN "registration" ELSE "token"
UseDocument(r, names) ==
  IF Needs(reqs[r].goal) \in names
  THEN reqs' = [reqs EXCEPT ![r].phase = reqs[r].goal, ![r].goal = "none"]
  ELSE Finish(r, 503, reqs[r].hdr, "failed")

(* The instance's document, then the one all instances share, which is kept  *)
(* by the instance for a whole lifetime of its own, then the service's.      *)
Discover(r) ==
  /\ reqs[r].phase = "discover"
  /\ LET i == reqs[r].inst IN
     \/ /\ found[i].names # {} /\ clock < found[i].exp
        /\ UseDocument(r, found[i].names) /\ UNCHANGED found
     \/ /\ ~(found[i].names # {} /\ clock < found[i].exp) /\ clock < found[Shared].exp
        /\ found' = [found EXCEPT ![i] = [found[Shared] EXCEPT !.exp = clock + cfg.ttl]]
        /\ UseDocument(r, found[Shared].names)
     \/ /\ ~(found[i].names # {} /\ clock < found[i].exp) /\ clock >= found[Shared].exp
        /\ reqs' = [reqs EXCEPT ![r].phase = "document", ![r].now = clock] /\ UNCHANGED found
  /\ UNCHANGED <<cfg, clock, meta, writes, enforcer, wafcache, picker, tokens, failures>>

StoreDocument_Now(i, names, now) ==
  LET d == [exp |-> clock + 2 * cfg.ttl, at |-> now, names |-> names] IN
  found' = [found EXCEPT ![i] = d, ![Shared] = d]

(* The lifetime runs from before the call, not from the answer.              *)
StoreDocument(i, names, now) ==
  LET d == [exp |-> now + cfg.ttl, at |-> now, names |-> names] IN
  found' = [found EXCEPT ![i] = d, ![Shared] = d]

FetchDocument(r) ==
  /\ reqs[r].phase = "document"
  /\ \/ Finish(r, 503, reqs[r].hdr, "failed") /\ UNCHANGED found
     \/ \E names \in {{"token"}, {"token", "registration"}} :
          StoreDocument(reqs[r].inst, names, reqs[r].now) /\ UseDocument(r, names)
  /\ UNCHANGED <<cfg, clock, meta, writes, enforcer, wafcache, picker, tokens, failures>>

KeycloakHandler(r) ==
  /\ cfg.plugin = "keycloak" /\ reqs[r].phase = "start"
  /\ \E i \in Instances :
       \/ /\ reqs[r].in.shows = "nothing" /\ Finish(r, 401, reqs[r].hdr, "none")
       \/ /\ reqs[r].in.shows = "badform" /\ Finish(r, 422, reqs[r].hdr, "none")
       \/ /\ reqs[r].in.shows \in {"form", "bearer"}
          /\ reqs' = [reqs EXCEPT ![r].phase = reqs[r].in.shows, ![r].inst = i]
  /\ UNCHANGED <<cfg, clock, meta, writes, enforcer, wafcache, picker, tokens, found, failures>>

(* The permissions to ask for: the configured ones, or those registered for  *)
(* the path, which takes a token of the service account.                     *)
PermissionsForRequest(r) ==
  /\ reqs[r].phase = "bearer"
  /\ \/ /\ cfg.lazy /\ TokenEndpoint(r, "account")
     \/ /\ ~cfg.lazy
        /\ reqs' = [reqs EXCEPT ![r].phase = "evaluate", ![r].found = cfg.permissions]
  /\ UNCHANGED <<cfg, clock, meta, writes, enforcer, wafcache, picker, tokens, found, failures>>

(* The time is read once, before the caches are consulted and the calls made. *)
ServiceAccountAccessToken(r) ==
  /\ reqs[r].phase = "account"
  /\ LET own == tokens[reqs[r].inst] IN
     \/ /\ ValidTokenCache(own, clock)
        /\ reqs' = [reqs EXCEPT ![r].phase = "lookup", ![r].token = own, ![r].now = clock]
     \/ /\ ~ValidTokenCache(own, clock)
        /\ reqs' = [reqs EXCEPT ![r].phase = "sharedtoken", ![r].token = own, ![r].now = clock]
  /\ UNCHANGED <<cfg, clock, meta, writes, enforcer, wafcache, picker, tokens, found, failures>>

LoadSharedServiceAccountToken(r) ==
  /\ reqs[r].phase = "sharedtoken"
  /\ LET shared == tokens[Shared]
         now == reqs[r].now
         best == IF shared.held THEN shared ELSE reqs[r].token IN
     \/ /\ ValidTokenCache(shared, now) /\ tokens' = [tokens EXCEPT ![reqs[r].inst] = shared]
        /\ reqs' = [reqs EXCEPT ![r].phase = "lookup", ![r].token = shared]
     \/ /\ ~ValidTokenCache(shared, now) /\ UNCHANGED tokens
        /\ reqs' = [reqs EXCEPT ![r].token = best, ![r].phase =
                      IF best.refresh /\ now < best.refreshExp THEN "refresh" ELSE "fetch"]
  /\ UNCHANGED <<cfg, clock, meta, writes, enforcer, wafcache, picker, found, failures>>

(* The instance's cache, then the shared one: nothing reads both at once.    *)
CacheServiceAccountToken(r, previous) ==
  \E grant \in Grants :
    LET t == CachedToken(grant, previous) IN
    /\ tokens' = [tokens EXCEPT ![reqs[r].inst] = t, ![Shared] = t]
    /\ reqs' = [reqs EXCEPT ![r].phase = "lookup", ![r].token = t, ![r].now = clock]

(* A refresh whose answer has no access token falls through to the client    *)
(* credentials; a failed call ends the request.                              *)
RequestServiceAccountToken(r) ==
  /\ reqs[r].phase \in {"refresh", "fetch"}
  /\ \/ /\ Finish(r, 503, reqs[r].hdr, "failed") /\ UNCHANGED tokens
     \/ /\ reqs[r].phase = "refresh" /\ UNCHANGED tokens
        /\ reqs' = [reqs EXCEPT ![r].phase = "fetch", ![r].token = NoToken]
     \/ CacheServiceAccountToken(r, IF reqs[r].phase = "refresh" THEN reqs[r].token ELSE NoToken)
  /\ UNCHANGED <<cfg, clock, meta, writes, enforcer, wafcache, picker, found, failures>>

LookupResources(r) ==
  /\ reqs[r].phase = "lookup" /\ ResourceRegistrationEndpoint(r)
  /\ UNCHANGED <<cfg, clock, meta, writes, enforcer, wafcache, picker, tokens, found, failures>>

RegisteredPermissions(r) ==
  /\ reqs[r].phase = "resources"
  /\ \/ Finish(r, 503, reqs[r].hdr, "failed")
     \/ \E n \in {0, 1} : reqs' = [reqs EXCEPT ![r].phase = "evaluate", ![r].found = n,
                                               ![r].token = NoToken, ![r].now = 0]
  /\ UNCHANGED <<cfg, clock, meta, writes, enforcer, wafcache, picker, tokens, found, failures>>

Denied == IF cfg.redirect THEN 307 ELSE 403

EvaluatePermissions(r) ==
  /\ reqs[r].phase = "evaluate"
  /\ \/ /\ reqs[r].found = 0 /\ cfg.enforcing /\ Finish(r, Denied, reqs[r].hdr, "none")
     \/ /\ ~(reqs[r].found = 0 /\ cfg.enforcing) /\ TokenEndpoint(r, "ask_keycloak")
  /\ UNCHANGED <<cfg, clock, meta, writes, enforcer, wafcache, picker, tokens, found, failures>>

Decision(r) ==
  /\ reqs[r].phase = "ask_keycloak"
  /\ \E a \in {"ok", "forbidden", "unauthorized", "unreachable"} :
       Finish(r, CASE a = "ok" -> 200 [] a = "forbidden" -> Denied
                   [] a = "unauthorized" -> 401 [] a = "unreachable" -> 503, reqs[r].hdr, a)
  /\ UNCHANGED <<cfg, clock, meta, writes, enforcer, wafcache, picker, tokens, found, failures>>

(* The gateway fetches a token for the client and answers with it itself;    *)
(* 201 stands for whatever the endpoint answered.                            *)
GenerateTokenUsingPasswordGrant(r) ==
  /\ \/ reqs[r].phase = "form" /\ TokenEndpoint(r, "password")
     \/ reqs[r].phase = "password" /\ \E status \in {201, 401} :
          Finish(r, status, reqs[r].hdr, "none")
  /\ UNCHANGED <<cfg, clock, meta, writes, enforcer, wafcache, picker, tokens, found, failures>>

(***************************************************************************)
(* chaitin-waf                                                               *)
(***************************************************************************)
BuildEffectiveConfig == IF meta = 0 THEN <<>> ELSE NodeLists[meta]

(* The bytes are read, compared under the lock, and read again to build.    *)
EffectiveConfig(r) ==
  /\ cfg.plugin = "chaitin" /\ reqs[r].phase = "start"
  /\ IF wafcache.valid /\ wafcache.raw = meta
     THEN reqs' = [reqs EXCEPT ![r].phase = "pick", ![r].nodes = wafcache.nodes]
     ELSE reqs' = [reqs EXCEPT ![r].phase = "build", ![r].found = meta]
  /\ UNCHANGED <<cfg, clock, meta, writes, enforcer, wafcache, picker, tokens, found, failures>>

RebuildEffectiveConfig(r) ==
  /\ reqs[r].phase = "build"
  /\ LET hit == wafcache.valid /\ wafcache.raw = reqs[r].found
         nodes == IF hit THEN wafcache.nodes ELSE BuildEffectiveConfig IN
     /\ wafcache' = [valid |-> TRUE, raw |-> reqs[r].found, nodes |-> nodes]
     /\ reqs' = [reqs EXCEPT ![r].phase = "pick", ![r].nodes = nodes]
  /\ UNCHANGED <<cfg, clock, meta, writes, enforcer, picker, tokens, found, failures>>

(* Round robin over the nodes that are not cooling down; a node list with    *)
(* another signature starts afresh.                                          *)
Picked(nodes) ==
  LET fresh == IF nodes = picker.list THEN picker
               ELSE [list |-> nodes, next |-> 1, bad |-> <<>>]
      n == Len(nodes)
      Bad(i) == nodes[i] \in DOMAIN fresh.bad /\ fresh.bad[nodes[i]] > clock
      index(o) == ((fresh.next - 1 + o) % n) + 1
      free == {o \in 0 .. n - 1 : ~Bad(index(o))} IN
  IF free = {} THEN [node |-> NoNode, picker |-> fresh]
  ELSE LET o == CHOOSE x \in free : \A y \in free : x <= y
           node == nodes[index(o)]
           rest == [m \in DOMAIN fresh.bad \ {node} |-> fresh.bad[m]] IN
       [node |-> node, picker |-> [fresh EXCEPT !.next = (index(o) % n) + 1, !.bad = rest]]

MarkFailure_Passing(node) == UNCHANGED picker

MarkFailure(node) ==
  picker' = [picker EXCEPT !.bad =
               [m \in DOMAIN picker.bad \union {node} |->
                  IF m = node THEN clock + Cooldown ELSE picker.bad[m]]]

MarkSuccess(node) ==
  picker' = [picker EXCEPT !.bad = [m \in DOMAIN picker.bad \ {node} |-> picker.bad[m]]]

(* A node is chosen before the mode is looked at, so without a node even     *)
(* "off" is an error.                                                        *)
PickNode(r) ==
  /\ reqs[r].phase = "pick"
  /\ LET nodes == reqs[r].nodes
         p == Picked(nodes) IN
     \/ /\ Len(nodes) = 0 /\ Finish(r, 500, reqs[r].hdr, "none") /\ UNCHANGED <<picker, failures>>
     \/ /\ Len(nodes) > 0 /\ picker' = p.picker
        /\ failures' = IF nodes = picker.list THEN failures ELSE <<>>
        /\ \/ /\ p.node = NoNode /\ Finish(r, 500, reqs[r].hdr, "none")
           \/ /\ p.node # NoNode /\ (cfg.mode = "off" \/ ~reqs[r].in.selected)
              /\ Finish(r, 200, reqs[r].hdr, "none")
           \/ /\ p.node # NoNode /\ cfg.mode # "off" /\ reqs[r].in.selected
              /\ reqs' = [reqs EXCEPT ![r].phase = "ask", ![r].node = p.node,
                                   ![r].nodes = <<>>, ![r].found = 0]
  /\ UNCHANGED <<cfg, clock, meta, writes, enforcer, wafcache, tokens, found>>

WAFAnswers == {"error", "pass", "reject", "reject_badstatus"}

(* The node's answer; the health mark comes before the decision.            *)
DoAccess(r) ==
  /\ reqs[r].phase = "ask"
  /\ \E a \in WAFAnswers :
       LET node == reqs[r].node
           blocked == CASE a = "error" -> 500 [] a = "reject" -> 403
                        [] a = "reject_badstatus" -> 500 [] a = "pass" -> 200 IN
       /\ \/ /\ a = "error" /\ MarkFailure(node)
             /\ failures' = [m \in DOMAIN failures \union {node} |->
                               IF m = node THEN clock ELSE failures[m]]
          \/ /\ a # "error" /\ MarkSuccess(node)
             /\ failures' = [m \in DOMAIN failures \ {node} |-> failures[m]]
       /\ Finish(r, IF cfg.mode = "monitor" THEN 200 ELSE blocked, reqs[r].hdr, a)
  /\ UNCHANGED <<cfg, clock, meta, writes, enforcer, wafcache, tokens, found>>

Next ==
  \/ SetMetadata \/ Tick
  \/ \E r \in Requests :
       \/ Arrive(r) \/ OPAHandler(r) \/ Authorize(r) \/ ForwardHandler(r)
       \/ CurrentEnforcer(r) \/ MetadataEnforcer(r) \/ CasbinHandler(r)
       \/ KeycloakHandler(r) \/ PermissionsForRequest(r) \/ Discover(r) \/ FetchDocument(r)
       \/ ServiceAccountAccessToken(r) \/ LoadSharedServiceAccountToken(r)
       \/ RequestServiceAccountToken(r) \/ LookupResources(r) \/ RegisteredPermissions(r)
       \/ EvaluatePermissions(r) \/ Decision(r) \/ GenerateTokenUsingPasswordGrant(r)
       \/ EffectiveConfig(r) \/ RebuildEffectiveConfig(r) \/ PickNode(r) \/ DoAccess(r)

Spec == Init /\ [][Next]_vars

TypeOK ==
  /\ meta \in {0} \union Contents /\ clock \in 0 .. MaxClock
  /\ \A r \in Requests : reqs[r].hdr \in [Names -> Origins] /\ reqs[r].body \in 0 .. 2

(***************************************************************************)
(* Properties                                                                *)
(***************************************************************************)
(* Who may let a request through: a decision of the service, or a setting    *)
(* that says to go on without one.                                           *)
Cleared(r) ==
  CASE cfg.plugin = "opa" -> reqs[r].answer \in {"allow", "allow_headers"}
    [] cfg.plugin = "forward" -> \/ reqs[r].answer \in {"ok", "ok_headers"}
                                 \/ reqs[r].answer = "unreachable" /\ cfg.degrade
    [] cfg.plugin = "casbin" -> reqs[r].in.user \in
                                  Policies[IF cfg.own THEN 1 ELSE reqs[r].found].allows
    [] cfg.plugin = "keycloak" -> reqs[r].answer = "ok" /\ (reqs[r].found > 0 \/ ~cfg.enforcing)
    [] cfg.plugin = "chaitin" -> \/ reqs[r].answer = "pass"
                                 \/ cfg.mode # "block" \/ ~reqs[r].in.selected

(* A request reaches the upstream only when the service cleared it under the *)
(* policy the request itself read, with its whole body, and with no header   *)
(* of the configured ones left from the client when a service answered.      *)
ClearedOnly ==
  \A r \in Requests :
    reqs[r].status = 200 =>
      /\ Cleared(r)
      /\ reqs[r].body = reqs[r].in.body
      /\ cfg.plugin \in {"opa", "forward"} /\ reqs[r].answer # "unreachable" =>
           \A n \in cfg.names : reqs[r].hdr[n] # "client"

(* Nothing stale is used, however the instances hand it on: a refresh token  *)
(* is not sent at or after the end the endpoint granted it, an account token *)
(* only before its own end, and a discovery document is dropped by everyone  *)
(* within two lifetimes of its fetch.                                        *)
NothingStale ==
  /\ \A r \in Requests :
       /\ reqs[r].phase = "refresh" => reqs[r].now < reqs[r].token.granted
       /\ reqs[r].phase = "lookup" => reqs[r].now < reqs[r].token.exp
  /\ \A i \in DOMAIN found : found[i].names # {} => found[i].exp < found[i].at + 2 * cfg.ttl

(* A detection node that failed is not shown another request within its      *)
(* cooldown unless it answered one since.                                    *)
FailedNodesRest ==
  \A r \in Requests :
    reqs[r].phase = "pick" /\ reqs'[r].phase = "ask" /\ reqs'[r].node \in DOMAIN failures' =>
      clock >= failures'[reqs'[r].node] + Cooldown
=============================================================================
