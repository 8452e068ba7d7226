----------------------------- MODULE MCAdmission -----------------------------
(***************************************************************************)
(* The plugins that let a request pass, answer it or count it before it    *)
(* goes upstream, each explored by itself: `part' names the one that runs  *)
(* and v1 to v11 hold its variables; what it does not need of them stays   *)
(* 0.                                                                      *)
(***************************************************************************)
EXTENDS Integers, Sequences, TLC

CONSTANTS r1, r2, none

VARIABLES part, v1, v2, v3, v4, v5, v6, v7, v8, v9, v10, v11

vars == <<part, v1, v2, v3, v4, v5, v6, v7, v8, v9, v10, v11>>

-----------------------------------------------------------------------------
(* Inputs                                                                  *)

\* Chains, clients and rules for ConsumerAuth: each plugin alone with its
\* options, pairs of plugins under multi-auth, and clients that show one
\* credential, right, wrong or of nobody, or two in two places.
ConsumerLabels == [c \in {"alice", "guest"} |->
    IF c = "alice" THEN {[form |-> "list", values |-> {"gold", "eu"}]}
    ELSE {[form |-> "words", values |-> {"basic"}]}]

AuthSettings(p, h, a, s) == [plugin |-> p, hide |-> h, anonymous |-> a, strict |-> s]

Alone ==
    {AuthSettings(p, h, a, s) : p \in {"jwt", "hmac"}, h \in BOOLEAN, a \in {"", "guest", "gone"}, s \in BOOLEAN}
    \union {AuthSettings(p, h, a, TRUE) : p \in {"key", "basic"}, h \in BOOLEAN, a \in {"", "guest", "gone"}}
    \union {AuthSettings("ldap", h, "", TRUE) : h \in BOOLEAN}
    \union {AuthSettings("jwe", FALSE, "", s) : s \in BOOLEAN} \union {AuthSettings("wolf", FALSE, "", TRUE)}

Children ==
    {AuthSettings(p, TRUE, "", TRUE) : p \in {"key", "basic", "ldap"}}
    \union {AuthSettings(p, TRUE, "", s) : p \in {"jwt", "hmac"}, s \in BOOLEAN}
    \union {AuthSettings("jwe", FALSE, "", s) : s \in BOOLEAN}
    \union {AuthSettings("wolf", FALSE, "", TRUE), AuthSettings("hmac", TRUE, "guest", TRUE)}

Chains == {<<>>} \union {<<s>> : s \in Alone} \union {<<a, b>> : a \in Children, b \in Children}

Places == {"key_header", "key_query", "authorization", "jwt_query", "jwt_cookie",
           "rbac_query", "rbac_header", "rbac_cookie"}

Cred(scheme, name, fault) == [scheme |-> scheme, name |-> name, fault |-> fault]
NoCred == Cred("", "", "")
Jwt(name, fault, exp, nbf) == [scheme |-> "jwt", name |-> name, fault |-> fault, exp |-> exp, nbf |-> nbf]
Kinds(scheme) == {Cred(scheme, "alice", ""), Cred(scheme, "alice", "wrong"), Cred(scheme, "nobody", "")}
Rbac == {Cred("rbac", "alice", ""), Cred("rbac", "nobody", "")}
Jwts ==
    {Jwt("alice", "", -1, -1), Jwt("alice", "", 1, -1), Jwt("alice", "", 2, 3), Jwt("alice", "", -1, 4),
     Jwt("alice", "wrong", -1, -1), Jwt("nobody", "", -1, -1)}
ApiKeys == {Cred("key", "alice", ""), Cred("key", "nobody", "")}

At(p) ==
    CASE p \in {"key_header", "key_query"} -> ApiKeys
      [] p = "authorization" ->
           Kinds("basic") \union Jwts \union Kinds("hmac") \union Kinds("jwe") \union Rbac
           \union {Cred("hmac", "alice", "body_limit"), Cred("junk", "", "")}
      [] p \in {"jwt_query", "jwt_cookie"} -> Jwts
      [] OTHER -> Rbac

Showing(p, c) == [x \in Places |-> IF x = p THEN c ELSE NoCred]
Both(p, c, q, d) == [x \in Places |-> IF x = p THEN c ELSE IF x = q THEN d ELSE NoCred]

Credentials ==
    UNION {{Showing(p, c) : c \in At(p)} : p \in Places}
    \union {Both("authorization", c, "key_query", k) : c \in At("authorization"), k \in ApiKeys}
    \union {Both("key_header", c, "key_query", k) : c \in ApiKeys, k \in ApiKeys}

Client(creds, body, user, external) ==
    [creds |-> creds, body |-> body, user |-> user, identity |-> "", method |-> "GET",
     external |-> external, label |-> ""]

Clients ==
    {Client(f, "whole", "client", {}) : f \in Credentials}
    \union {Client([x \in Places |-> NoCred], "none", "", e) :
               e \in {{}, {[path |-> <<"a", "groups">>, form |-> "json", values |-> {"gold"}]}}}

NoRule == [on |-> FALSE, black |-> {}, white |-> {}, methods |-> <<>>]
RestrictionRules ==
    {NoRule, [on |-> TRUE, black |-> {"alice"}, white |-> {}, methods |-> [u \in {"alice"} |-> {"GET"}]],
     [on |-> TRUE, black |-> {}, white |-> {"alice"}, methods |-> [u \in {"alice"} |-> {}]]}

NoAcl ==
    [on |-> FALSE, deny |-> {}, allow |-> {}, parser |-> "",
     field |-> [head |-> <<>>, tail |-> <<"groups">>, deep |-> TRUE]]
Acls ==
    {NoAcl, [NoAcl EXCEPT !.on = TRUE, !.deny = {"eu"}, !.allow = {"gold"}],
     [NoAcl EXCEPT !.on = TRUE, !.allow = {"gold"}, !.parser = "json"]}

\* The answers of the wolf server to three tries.
WolfAnswers ==
    {<<"5xx", "5xx", c>> : c \in {"5xx", "granted"}}
    \union {<<a, "5xx", "5xx">> : a \in {"granted", "unreachable", "not_json", "refused", "denied"}}

\* Each external authorizer; keycloak with and without permissions of its own,
\* lazily resolved resources and a discovery document.
Keycloak(lazy, permissions, enforcing, redirect, discovery, ttl) ==
    [plugin |-> "keycloak", lazy |-> lazy, permissions |-> permissions, enforcing |-> enforcing,
     redirect |-> redirect, discovery |-> discovery, life |-> 2, refreshLife |-> 3, leeway |-> 0, ttl |-> ttl]
ExternalSettings ==
    {[plugin |-> "opa", names |-> {"h1"}]}
    \union [plugin : {"forward"}, degrade : BOOLEAN, onError : {403}, post : BOOLEAN, limit : {1}, names : {{"h1"}}]
    \union [plugin : {"casbin"}, own : BOOLEAN]
    \union {Keycloak(FALSE, p, e, TRUE, FALSE, 2) : p \in {0, 1}, e \in BOOLEAN}
    \union {Keycloak(FALSE, 1, TRUE, FALSE, TRUE, 1), Keycloak(TRUE, 0, TRUE, FALSE, FALSE, 2)}
    \union [plugin : {"chaitin"}, mode : {"off", "monitor", "block"}]
ExternalPolicies ==
    <<[valid |-> TRUE, allows |-> {"alice"}], [valid |-> TRUE, allows |-> {"anonymous"}],
      [valid |-> FALSE, allows |-> {}]>>
ExternalGrants ==
    {[life |-> 0, refreshed |-> FALSE, refreshLife |-> 0], [life |-> 2, refreshed |-> TRUE, refreshLife |-> 0]}

SessionSettings ==
    {[plugin |-> "casdoor"], [plugin |-> "dingtalk", header |-> TRUE], [plugin |-> "feishu", header |-> FALSE]}
    \union [plugin : {"cas"}, trusted : {TRUE}] \union [plugin : {"saml"}, post : {TRUE}]
    \union [plugin : {"csrf"}, expires : {0, 1}]

\* Sessions in a cookie and in Redis, with and without refresh; bearers checked
\* by keys, by introspection and by what they must say.
Login ==
    [bearer_only |-> FALSE, unauth_action |-> "auth", storage |-> "redis", force_reauthorize |-> FALSE,
     renew |-> TRUE, refresh_interval |-> -1, leeway |-> 0, absolute |-> 2, idling |-> 2, rolling |-> 2,
     expires_in |-> 0, client_secret |-> TRUE, use_pkce |-> FALSE, keys |-> "none", issuers |-> {},
     required |-> FALSE, match_client |-> FALSE, valid |-> {}, scopes |-> FALSE,
     endpoints |-> {"authorization", "introspection"}]
Bearer == [Login EXCEPT !.bearer_only = TRUE]
OpenIDSettings ==
    {[Login EXCEPT !.storage = "cookie"], [Login EXCEPT !.refresh_interval = 0],
     [Login EXCEPT !.storage = "cookie", !.refresh_interval = 0, !.leeway = 1],
     [Login EXCEPT !.client_secret = FALSE, !.use_pkce = TRUE], [Login EXCEPT !.unauth_action = "pass"],
     [Login EXCEPT !.force_reauthorize = TRUE, !.endpoints = {}],
     [Bearer EXCEPT !.keys = "jwks"], [Bearer EXCEPT !.keys = "static", !.issuers = {"other"}, !.match_client = TRUE],
     [Bearer EXCEPT !.valid = {"listed"}, !.scopes = TRUE]}
Token ==
    [genuine |-> TRUE, alg |-> TRUE, iss |-> "provider", aud |-> "client", active |-> "absent",
     scope |-> TRUE, schema |-> TRUE]
OpenIDBearers ==
    {Token, [Token EXCEPT !.iss = "other"], [Token EXCEPT !.active = "true", !.aud = "listed"],
     [Token EXCEPT !.active = "false"], [Token EXCEPT !.scope = FALSE], [Token EXCEPT !.genuine = FALSE],
     [Token EXCEPT !.iss = "none", !.active = "true"]}

\* proxy-cache in memory and on disk and graphql-proxy-cache, two consumers of
\* one URI that differ in a header the answer varies by.
Zone ==
    [plugin |-> "proxy", strategy |-> "zone", isolation |-> TRUE, identity |-> FALSE, cache_control |-> FALSE,
     set_cookie |-> FALSE, ttl |-> 1, capacity |-> 8, disk_size |-> 3]
CacheSettings ==
    {Zone, [Zone EXCEPT !.strategy = "disk"], [Zone EXCEPT !.plugin = "graphql"],
     [Zone EXCEPT !.plugin = "graphql", !.strategy = "disk"],
     [Zone EXCEPT !.strategy = "local", !.cache_control = TRUE, !.isolation = FALSE]}
Query == [uri |-> "u", consumer |-> none, shown |-> [h \in {"A"} |-> 1], ask |-> <<>>, method |-> "GET"]
CacheQueries ==
    {Query, [Query EXCEPT !.shown["A"] = 2], [Query EXCEPT !.consumer = "a", !.ask = "max-age" :> 0],
     [Query EXCEPT !.method = "HEAD"]}
Fetched == [status |-> TRUE, skip |-> FALSE, cookie |-> FALSE, ttl |-> 0, vary |-> {}]
CacheAnswers == {Fetched, [Fetched EXCEPT !.vary = {"A"}, !.ttl = 1]}

\* limit-count with one rule and with two, fixed and sliding, in memory and in
\* Redis, and graphql-limit-count.
Rule(key, count, window) == [key |-> key, count |-> count, window |-> window]
Limit ==
    [plugin |-> "limit-count", rules |-> <<Rule("a", 2, 2)>>, ruled |-> FALSE, cost |-> 1,
     window_type |-> "fixed", policy |-> "local", sync_interval |-> 0, dynamic |-> FALSE,
     allow_degradation |-> FALSE]
Ruled == [Limit EXCEPT !.rules = <<Rule("a", 2, 2), Rule("b", 1, 3)>>, !.ruled = TRUE, !.dynamic = TRUE]
CountSettings ==
    {Limit, [Limit EXCEPT !.cost = 0], Ruled, [Ruled EXCEPT !.policy = "redis"],
     [Ruled EXCEPT !.policy = "redis", !.allow_degradation = TRUE, !.cost = 2],
     [Limit EXCEPT !.window_type = "sliding"],
     [Limit EXCEPT !.window_type = "sliding", !.policy = "redis", !.rules = <<Rule("a", 1, 2)>>],
     [Ruled EXCEPT !.plugin = "graphql", !.cost = 0],
     [Ruled EXCEPT !.plugin = "graphql", !.cost = 0, !.policy = "redis"]}
Asking(keys, depth) == [keys |-> keys, known |-> [i \in DOMAIN keys |-> TRUE], depth |-> depth]
CountAsks ==
    {Asking(<<"k">>, 1), Asking(<<"l">>, 1), Asking(<<"k", "k">>, 1), Asking(<<none, "l">>, 0),
     [Asking(<<none, "k">>, 2) EXCEPT !.known[2] = FALSE], [Asking(<<"l", "k">>, 2) EXCEPT !.known[2] = FALSE]}

-----------------------------------------------------------------------------
(* Parts                                                                   *)

Consumer == INSTANCE ConsumerAuth WITH
    Labels <- ConsumerLabels, Chains <- Chains, Clients <- Clients,
    Rules <- RestrictionRules, Acls <- Acls, Answers <- WolfAnswers, chain <- v1,
    orig <- v2, cur <- v3, at <- v4, who <- v5, by <- v6, rule <- v7, status <- v8

External == INSTANCE ExternalAuth WITH
    Requests <- {r1, r2}, Settings <- ExternalSettings, Names <- {"h1", "h2"},
    Policies <- ExternalPolicies, NodeLists <- << <<"n1", "n2">>, <<"n2">> >>,
    Cooldown <- 2, Instances <- {"i1", "i2"}, Grants <- ExternalGrants, MaxClock <- 2,
    MaxWrites <- 1, cfg <- v1, clock <- v2, meta <- v3, writes <- v4, enforcer <- v5,
    wafcache <- v6, picker <- v7, tokens <- v8, found <- v9, failures <- v10, reqs <- v11

Session == INSTANCE SessionAuth WITH
    Requests <- {r1, r2}, Settings <- SessionSettings, Users <- {"alice"},
    Nobody <- "nobody", Tickets <- {"t1"}, Capacity <- 1, StateLife <- 1, SessionLife <- 1,
    IssueDelay <- 1, Skew <- 1, MaxClock <- 2, MaxCookies <- 2, MaxInstances <- 2,
    cfg <- v1, clock <- v2, insts <- v3, jar <- v4, replay <- v5, sessions <- v6,
    ended <- v7, accepted <- v8, reqs <- v9

OpenID == INSTANCE OpenIDConnect WITH
    Requests <- {r1, r2}, Settings <- OpenIDSettings, Bearers <- OpenIDBearers,
    FlowLife <- 2, TokenLives <- {1}, MaxClock <- 2, MaxFlows <- 2, NoToken <- none,
    cfg <- v1, clock <- v2, discoveryLoaded <- v3, flows <- v4, cookie <- v5, redis <- v6,
    ids <- v7, gone <- v8, reqs <- v9

Cache == INSTANCE ResponseCache WITH
    Requests <- {r1, r2}, Settings <- CacheSettings, Queries <- CacheQueries,
    Nobody <- none, Answers <- CacheAnswers, MaxVariants <- 1, CleanupPeriod <- 1,
    MaxClock <- 2, cfg <- v1, clock <- v2, entries <- v3, vary <- v4, loaded <- v5,
    files <- v6, indexFiles <- v7, cleaned <- v8, reqs <- v9

Counts == INSTANCE CountLimits WITH
    Requests <- {r1, r2}, Settings <- CountSettings, Asks <- CountAsks, NoKey <- none,
    Capacity <- 4, MaxClock <- 4, MaxValue <- 3, MaxLag <- 1, cfg <- v1, clock <- v2,
    counters <- v3, reqs <- v4, taken <- v5

ASSUME /\ Consumer!AuthConfig /\ External!ExternalConfig /\ Session!SessionConfig
       /\ OpenID!OIDCConfig /\ Cache!CacheConfig /\ Counts!CountConfig

\* The variables a part with fewer than eleven leaves alone.
after5 == <<v6, v7, v8, v9, v10, v11>>
after8 == <<v9, v10, v11>>
after9 == <<v10, v11>>

Free9 == v10 = 0 /\ v11 = 0
Free8 == v9 = 0 /\ Free9
Free5 == v6 = 0 /\ v7 = 0 /\ v8 = 0 /\ Free8

Init ==
    \/ part = "consumers" /\ Consumer!Init /\ Free8
    \/ part = "external" /\ External!Init
    \/ part = "sessions" /\ Session!Init /\ Free9
    \/ part = "openid" /\ OpenID!Init /\ Free9
    \/ part = "cache" /\ Cache!Init /\ Free9
    \/ part = "counts" /\ Counts!Init /\ Free5

Next ==
    \/ part = "consumers" /\ Consumer!Next /\ UNCHANGED <<part, after8>>
    \/ part = "external" /\ External!Next /\ UNCHANGED part
    \/ part = "sessions" /\ Session!Next /\ UNCHANGED <<part, after9>>
    \/ part = "openid" /\ OpenID!Next /\ UNCHANGED <<part, after9>>
    \/ part = "cache" /\ Cache!Next /\ UNCHANGED <<part, after9>>
    \/ part = "counts" /\ Counts!Next /\ UNCHANGED <<part, after5>>

Spec == Init /\ [][Next]_vars

\* Requests and plugin instances are interchangeable.
Symmetry == Permutations({r1, r2})

-----------------------------------------------------------------------------
(* Properties                                                              *)

\* A request goes on only with a credential that its consumer's plugin accepted
\* or as the anonymous consumer, as that consumer and without what hide_credentials
\* hides, whatever other plugins of a multi-auth chain tried before; and it is
\* refused only when every plugin, restriction or label rule asks for it. It
\* passes an external authorizer only with a clearance for that very request
\* under a policy that was current, and nothing is answered from a token,
\* document or node list past its end.
ClearedRight ==
    /\ part = "consumers" => Consumer!ForwardedRight /\ Consumer!RefusedRight
    /\ part = "external" => External!TypeOK /\ External!ClearedOnly /\ External!NothingStale

\* Sessions: a login is answered to the browser that asked, a state is taken once,
\* and what was logged out, expired or outlived its bounds is not let in again;
\* a bearer token passes only for what it says and its issuer is listed.
SessionsRight ==
    /\ part = "sessions" =>
         Session!TypeOK /\ Session!LoginsAnswered /\ Session!StateOnce /\ Session!LogoutFinal
    /\ part = "openid" =>
         OpenID!TypeOK /\ OpenID!SessionsBounded /\ OpenID!LogoutFinal /\ OpenID!BearersRight

\* A cached response is served only to a request of the same key and variant and
\* before its end, every stored variant can be found by the index, and the zone
\* keeps its capacity (proxy-cache and graphql-proxy-cache).
CacheRight == part = "cache" => Cache!TypeOK /\ Cache!ServedRight /\ Cache!VariantsListed /\ Cache!ZoneBounded

\* limit-count admits within its windows and by every rule that applies.
CountsRight == part = "counts" => Counts!TypeOK /\ Counts!WindowsHold /\ Counts!ForwardedRight

\* What a step may not do: admit a request by a cookie that is too old, of a
\* foreign secret or of another user; show a request to a detection node that
\* failed within its cooldown; admit past a sliding window.
AdmissionStepsRight ==
    [][/\ part = "sessions" => Session!AdmittedRight
       /\ part = "external" => External!FailedNodesRest
       /\ part = "counts" => Counts!SlidingHolds]_vars

=============================================================================
