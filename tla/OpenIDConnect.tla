--------------------------- MODULE OpenIDConnect ---------------------------
(* openid-connect: bearer tokens verified here or by introspection, and the   *)
(* authorization code flow of one browser, whose session is sealed into its   *)
(* cookie or kept in Redis under an id the cookie names.                      *)
(*                                                                            *)
(* Between the read of a session and its write a request waits for the        *)
(* provider or for Redis, so the requests of the browser overlap there.  A     *)
(* browser may send its cookie or not, whatever the cookie's own end.         *)
EXTENDS Integers, FiniteSets

CONSTANTS Requests,
          Settings,    \* plugin settings the route may have
          Bearers,     \* bearer tokens clients may present
          FlowLife,    \* ten minutes, flowExpiry
          TokenLives,  \* expires_in of the provider's tokens; 0: not said
          MaxClock,    \* bound: the clock stops here
          MaxFlows,    \* bound: authorizations begun
          NoToken

VARIABLES cfg, clock,
          discoveryLoaded,
          flows,       \* authorizations begun so far, the latest names the next state
          cookie,      \* what the browser's cookie holds
          redis,       \* id -> session and the end of its TTL
          ids,         \* ids handed out so far
          gone,        \* history: ids deleted by a logout while nobody else held them
          reqs

vars == <<cfg, clock, discoveryLoaded, flows, cookie, redis, ids, gone, reqs>>

Issuers == {"provider", "other", "none"}
Audiences == {"client", "listed", "other", "none"}

(* Settings after the defaults; a refresh_session_interval of -1 is not set.  *)
OIDCConfigs ==
  [bearer_only : BOOLEAN, unauth_action : {"auth", "deny", "pass"}, storage : {"cookie", "redis"},
   force_reauthorize : BOOLEAN, renew : BOOLEAN, refresh_interval : Nat \union {-1}, leeway : Nat,
   absolute : Nat \ {0}, idling : Nat \ {0}, rolling : Nat \ {0}, expires_in : Nat,
   client_secret : BOOLEAN, use_pkce : BOOLEAN, keys : {"static", "jwks", "none"},
   issuers : SUBSET Issuers, required : BOOLEAN, match_client : BOOLEAN, valid : SUBSET {"listed"},
   scopes : BOOLEAN, endpoints : SUBSET {"authorization", "introspection", "end_session"}]
(* A client without a secret needs keys of its own to verify bearer tokens   *)
(* with, or PKCE for the code flow; otherwise the plugin is not built.        *)
PostInit(c) == c.client_secret \/ IF c.bearer_only THEN c.keys # "none" ELSE c.use_pkce

ClaimSets ==
  [genuine : BOOLEAN, alg : BOOLEAN, iss : Issuers, aud : Audiences,
   active : {"absent", "true", "false", "odd"}, scope : BOOLEAN, schema : BOOLEAN]

OIDCConfig ==
  /\ Settings \subseteq OIDCConfigs
  /\ Bearers \subseteq ClaimSets /\ NoToken \notin Bearers
  /\ TokenLives \subseteq Nat /\ TokenLives # {}
  /\ FlowLife \in Nat \ {0} /\ MaxClock \in Nat \ {0} /\ MaxFlows \in Nat

(* No session; login is history: when the chain of sessions began.           *)
NoSession == [id |-> 0, created |-> 0, updated |-> 0, authenticated |-> 0, flow |-> 0, flowEnd |-> 0,
              access |-> FALSE, refresh |-> FALSE, expires |-> 0, login |-> 0]
NoEntry == [session |-> NoSession, until |-> 0]
Idle == [phase |-> "idle", now |-> 0, session |-> NoSession, via |-> "nothing", token |-> NoToken]

Init ==
  /\ cfg \in {c \in Settings : PostInit(c)}
  /\ clock = 1 /\ discoveryLoaded = FALSE
  /\ flows = 0 /\ ids = 0 /\ gone = {}
  /\ cookie = NoSession
  /\ redis = [i \in 1 .. MaxFlows |-> NoEntry]
  /\ reqs = [r \in Requests |-> Idle]

Least(S) == CHOOSE m \in S : \A n \in S : m <= n

(* A request answered here, with that status, leaves nothing behind; one      *)
(* passed on is remembered by what let it through.                           *)
Finish(r, status) == reqs' = [reqs EXCEPT ![r] = Idle]
Forward(r, via, session, token) ==
  reqs' = [reqs EXCEPT ![r] = [Idle EXCEPT !.phase = "forwarded", !.via = via, !.now = reqs[r].now,
                                 !.session.login = session.login, !.token = token]]
Wait(r, phase, session) ==
  reqs' = [reqs EXCEPT ![r] = [Idle EXCEPT !.phase = phase, !.session = session, !.now = clock]]

(* Redis drops an entry at the end of its TTL.                               *)
Tick ==
  /\ clock < MaxClock /\ clock' = clock + 1
  /\ redis' = [i \in DOMAIN redis |-> IF redis[i].until <= clock' THEN NoEntry ELSE redis[i]]
  /\ UNCHANGED <<cfg, discoveryLoaded, flows, cookie, ids, gone, reqs>>

(***************************************************************************)
(* The discovery document                                                    *)
(***************************************************************************)
(* Fetched until a fetch succeeds.                                           *)
discoveryDoc(ok) == (ok \/ discoveryLoaded) /\ discoveryLoaded' = TRUE
discoveryFails == ~discoveryLoaded /\ discoveryLoaded' = FALSE
providerClient(ok) == discoveryDoc(ok)

(***************************************************************************)
(* Bearer tokens                                                             *)
(***************************************************************************)
usesLocalJWTVerification == cfg.keys # "none"

audienceMatches(t, expected) == t.aud \in expected
localJWTAudienceValid(t) ==
  /\ cfg.match_client => audienceMatches(t, {"client"})
  /\ cfg.valid # {} => audienceMatches(t, cfg.valid)
  /\ cfg.match_client \/ cfg.valid # {} \/ audienceMatches(t, {"client"})

(* Set to inactive where the issuer is neither listed nor the provider's.    *)
validateIssuer_Listed(t, discovered) == t.iss \in cfg.issuers \/ cfg.issuers = {}
validateIssuer(t, discovered) ==
  IF cfg.issuers # {} THEN t.iss # "none" /\ t.iss \in cfg.issuers
  ELSE discovered /\ t.iss = "provider"

verifyBearerJWT(t, discovered) == t.alg /\ t.genuine /\ (cfg.keys = "static" \/ discovered)
locallyVerifiedTokenActive(t, discovered) ==
  validateIssuer(t, discovered) /\ localJWTAudienceValid(t) /\ t.active \in {"absent", "true"}
introspectionEndpoint(discovered) == discovered /\ "introspection" \in cfg.endpoints
tokenActive(t) == t.active = "true"

requiredScopesPresent(t) == cfg.scopes => t.scope
validateConfiguredClaims(t) ==
  /\ (cfg.required \/ cfg.match_client \/ cfg.valid # {}) => t.aud # "none"
  /\ (cfg.match_client /\ t.aud # "none") => audienceMatches(t, {"client"})
  /\ (cfg.valid # {} /\ t.aud # "none") => audienceMatches(t, cfg.valid)

(* The status a bearer token gets, 200 where it is passed on.                *)
BearerStatus(t, discovered, answers) ==
  CASE usesLocalJWTVerification /\ ~verifyBearerJWT(t, discovered) -> 401
    [] ~usesLocalJWTVerification /\ ~(introspectionEndpoint(discovered) /\ answers) -> 401
    [] usesLocalJWTVerification /\ ~locallyVerifiedTokenActive(t, discovered) -> 401
    [] ~usesLocalJWTVerification /\ ~tokenActive(t) -> 401
    [] ~requiredScopesPresent(t) -> 403
    [] ~validateConfiguredClaims(t) -> 403
    [] ~t.schema -> 401
    [] OTHER -> 200

(* A token of Authorization or, with bearer_only, of the client's             *)
(* X-Access-Token.                                                           *)
HandleBearer(r, t) ==
  \E answers \in IF usesLocalJWTVerification THEN {TRUE} ELSE BOOLEAN :
    /\ discoveryDoc(TRUE) \/ discoveryFails
    /\ LET status == BearerStatus(t, discoveryLoaded', answers) IN
       IF status = 200 THEN Forward(r, "bearer", NoSession, t) ELSE Finish(r, status)
    /\ UNCHANGED <<cfg, clock, flows, cookie, redis, ids, gone>>

(***************************************************************************)
(* Sessions                                                                  *)
(***************************************************************************)
redisGet(id) == IF redis[id] # NoEntry THEN [redis[id].session EXCEPT !.id = id] ELSE NoSession

readSession(sent) ==
  IF ~sent \/ cookie = NoSession THEN NoSession
  ELSE IF cfg.storage = "redis" THEN redisGet(cookie.id) ELSE cookie

sessionStorageTTL(s) ==
  LET end == Least({s.created + cfg.absolute, clock + cfg.rolling, clock + cfg.idling})
  IN  IF end > clock THEN end - clock ELSE 1

(* The cookie's end is left to the browser; the id is drawn once.            *)
writeSession(s) ==
  IF cfg.storage = "redis"
  THEN \E id \in {IF s.id = 0 THEN ids + 1 ELSE s.id} :
         /\ id <= MaxFlows
         /\ redis' = [redis EXCEPT ![id] = [session |-> [s EXCEPT !.id = 0], until |-> clock + sessionStorageTTL(s)]]
         /\ ids' = IF id > ids THEN id ELSE ids
         /\ cookie' = [NoSession EXCEPT !.id = id]
  ELSE cookie' = s /\ UNCHANGED <<redis, ids>>

(* Redis refuses the write: no cookie, the request ends with a 500.          *)
writeFails(r) ==
  /\ cfg.storage = "redis"
  /\ Finish(r, 500)
  /\ UNCHANGED <<cfg, clock, flows, cookie, redis, ids, gone>>

Timely(s, now) ==
  s.created + cfg.absolute > now /\ s.updated + cfg.idling > now /\ s.updated + cfg.rolling > now
sessionValid(s, now) ==
  /\ s.access
  /\ ~(s.expires > 0 /\ s.expires <= now + cfg.leeway)
  /\ Timely(s, now)
sessionRefreshable_Late(s, now) ==
  /\ s.refresh /\ s.expires # 0
  /\ s.expires <= now + cfg.leeway
  /\ s.updated + cfg.idling > now /\ s.updated + cfg.rolling > now
sessionRefreshable(s, now) ==
  /\ s.refresh /\ s.expires # 0
  /\ s.expires <= now + cfg.leeway
  /\ Timely(s, now)
refreshSessionDue(s, now) ==
  cfg.refresh_interval # -1 /\ (s.authenticated = 0 \/ s.authenticated + cfg.refresh_interval < now)
tokenExpiresAt(now, life) ==
  LET in == IF life > 0 THEN life ELSE cfg.expires_in IN IF in = 0 THEN 0 ELSE now + in

(***************************************************************************)
(* The authorization code flow                                               *)
(***************************************************************************)
flowExpiry(now) == now + Least({FlowLife, cfg.absolute})

(* A session that waits for a callback: a silent renewal keeps the created   *)
(* time and the id of the session it renews.                                 *)
FlowSession(previous) ==
  LET fresh == [NoSession EXCEPT !.created = clock, !.updated = clock, !.flow = flows + 1,
                                 !.flowEnd = flowExpiry(clock), !.login = clock]
  IN  IF previous = NoSession THEN fresh
      ELSE [fresh EXCEPT !.created = previous.created, !.id = previous.id, !.login = previous.login]

beginAuthorization(r) ==
  /\ reqs[r].phase = "authorize"
  /\ \/ /\ discoveryFails \/ ("authorization" \notin cfg.endpoints /\ discoveryDoc(TRUE))
        /\ Finish(r, 502) /\ UNCHANGED <<cfg, clock, flows, cookie, redis, ids, gone>>
     \/ /\ "authorization" \in cfg.endpoints /\ providerClient(TRUE)
        /\ \/ /\ flows < MaxFlows /\ flows' = flows + 1
              /\ writeSession(FlowSession(reqs[r].session))
              /\ Finish(r, 302) /\ UNCHANGED <<cfg, clock, gone>>
           \/ writeFails(r)

(* The session keeps the created time of its flow.                           *)
CallbackSession(s, answer) ==
  [NoSession EXCEPT !.id = s.id, !.created = s.created, !.login = s.login, !.updated = clock,
                    !.authenticated = clock, !.access = TRUE, !.refresh = answer.refresh,
                    !.expires = tokenExpiresAt(clock, answer.life)]

(* What the token endpoint may answer, asked with the client's credentials.  *)
requestTokens == [life : TokenLives, refresh : BOOLEAN]

(* How the checks of a token answer may end.                                 *)
verifyPresentIDToken == {200, 401}
userinfo == {200, 502}
validateSessionClaimSchema == {200, 401}
ExchangeFailures == ({502} \union verifyPresentIDToken \union userinfo \union validateSessionClaimSchema) \ {200}

(* The code is exchanged, the ID token verified, the userinfo fetched and    *)
(* held against claim_schema: each may fail, and nothing is written then.    *)
exchangeCode(r) ==
  /\ reqs[r].phase = "callback"
  /\ \/ \E status \in ExchangeFailures :
          Finish(r, status) /\ UNCHANGED <<cfg, clock, discoveryLoaded, flows, cookie, redis, ids, gone>>
     \/ /\ discoveryDoc(TRUE)
        /\ \/ \E answer \in requestTokens :
                /\ writeSession(CallbackSession(reqs[r].session, answer))
                /\ Finish(r, 302) /\ UNCHANGED <<cfg, clock, flows, gone>>
           \/ writeFails(r)

(* The state must be the flow's of the session shown, and in time.           *)
handleCodeCallback(r, s, state, code) ==
  /\ IF s.flow = 0 \/ state # s.flow \/ s.flowEnd <= clock \/ ~code
     THEN Finish(r, 400) ELSE Wait(r, "callback", s)
  /\ UNCHANGED <<cfg, clock, discoveryLoaded, flows, cookie, redis, ids, gone>>

(* The tokens are new, the created time is the session's.                    *)
RefreshedSession_Restarts(s, now, answer) ==
  [s EXCEPT !.created = now, !.updated = now, !.access = TRUE, !.expires = tokenExpiresAt(now, answer.life)]
RefreshedSession(s, now, answer) ==
  [s EXCEPT !.updated = now, !.access = TRUE, !.refresh = answer.refresh \/ s.refresh,
            !.expires = tokenExpiresAt(now, answer.life)]

refreshAccessToken(r) ==
  /\ reqs[r].phase = "refresh"
  /\ \/ Wait(r, "authorize", NoSession)
        /\ UNCHANGED <<cfg, clock, discoveryLoaded, flows, cookie, redis, ids, gone>>
     \/ \E status \in verifyPresentIDToken \ {200} :
          Finish(r, status) /\ UNCHANGED <<cfg, clock, discoveryLoaded, flows, cookie, redis, ids, gone>>
     \/ /\ discoveryDoc(TRUE)
        /\ \/ \E answer \in requestTokens :
                LET s == RefreshedSession(reqs[r].session, reqs[r].now, answer) IN
                /\ writeSession(s)
                /\ Forward(r, "session", s, NoToken) /\ UNCHANGED <<cfg, clock, flows, gone>>
           \/ writeFails(r)

(* A valid session is written back with a later updated time.                *)
rollSession(r) ==
  /\ reqs[r].phase = "roll" /\ UNCHANGED discoveryLoaded
  /\ \/ LET s == [reqs[r].session EXCEPT !.updated = reqs[r].now] IN
        writeSession(s) /\ Forward(r, "session", s, NoToken) /\ UNCHANGED <<cfg, clock, flows, gone>>
     \/ writeFails(r)

(* At the callback's path, or anywhere else.                                 *)
handleCodeFlow(r, s) ==
  \/ \E state \in 0 .. flows, code \in BOOLEAN : handleCodeCallback(r, s, state, code)
  \/ /\ IF cfg.force_reauthorize THEN Wait(r, "authorize", NoSession)
        ELSE IF sessionValid(s, clock)
        THEN Wait(r, IF refreshSessionDue(s, clock) THEN "authorize" ELSE "roll", s)
        ELSE IF cfg.renew /\ sessionRefreshable(s, clock) THEN Wait(r, "refresh", s)
        ELSE Wait(r, "authorize", NoSession)
     /\ UNCHANGED <<cfg, clock, discoveryLoaded, flows, cookie, redis, ids, gone>>

(* Nobody but r is between the read and the write of session id.             *)
OnlyHolder(r, id) ==
  \A q \in Requests \ {r} : reqs[q].session.id # id

clearSession_CookieOnly(r, s, deletes) ==
  cookie' = NoSession /\ UNCHANGED redis
  /\ gone' = IF cfg.storage = "redis" /\ s.id # 0 /\ deletes /\ OnlyHolder(r, s.id) THEN gone \union {s.id} ELSE gone
clearSession(r, s, deletes) ==
  /\ cookie' = NoSession
  /\ IF cfg.storage = "redis" /\ s.id # 0 /\ deletes
     THEN /\ redis' = [redis EXCEPT ![s.id] = NoEntry]
          /\ gone' = IF OnlyHolder(r, s.id) THEN gone \union {s.id} ELSE gone
     ELSE UNCHANGED <<redis, gone>>

(* The cookie and the Redis entry go, a failing delete is not noticed; the   *)
(* tokens are revoked at the provider, and the browser sent on.              *)
handleLogout(r, s) ==
  /\ \E deletes \in BOOLEAN : clearSession(r, s, deletes)
  /\ Finish(r, 302)
  /\ UNCHANGED <<cfg, clock, discoveryLoaded, flows, ids>>

(***************************************************************************)
(* The handler                                                               *)
(***************************************************************************)
Plain(r) ==
  /\ CASE cfg.bearer_only -> Finish(r, 401)
       [] ~cfg.bearer_only /\ cfg.unauth_action = "pass" -> Forward(r, "open", NoSession, NoToken)
       [] OTHER -> Finish(r, 401)
  /\ UNCHANGED <<cfg, clock, discoveryLoaded, flows, cookie, redis, ids, gone>>

Handler(r) ==
  /\ reqs[r].phase \in {"idle", "forwarded"}
  /\ \/ ~cfg.bearer_only /\ \E sent \in BOOLEAN : handleLogout(r, readSession(sent))
     \/ \E t \in Bearers : HandleBearer(r, t)
     \/ Finish(r, 400) /\ UNCHANGED <<cfg, clock, discoveryLoaded, flows, cookie, redis, ids, gone>>
     \/ (cfg.bearer_only \/ cfg.unauth_action # "auth") /\ Plain(r)
     \/ /\ ~cfg.bearer_only /\ cfg.unauth_action = "auth"
        /\ \E sent \in BOOLEAN : handleCodeFlow(r, readSession(sent))

Next ==
  \/ Tick
  \/ \E r \in Requests :
       Handler(r) \/ beginAuthorization(r) \/ exchangeCode(r) \/ refreshAccessToken(r) \/ rollSession(r)

Spec == Init /\ [][Next]_vars

----------------------------------------------------------------------------
Sessions == [id : 0 .. MaxFlows, created : 0 .. MaxClock, updated : 0 .. MaxClock,
             authenticated : 0 .. MaxClock, flow : 0 .. MaxFlows, flowEnd : Nat, access : BOOLEAN,
             refresh : BOOLEAN, expires : Nat, login : 0 .. MaxClock]

TypeOK ==
  /\ cfg \in Settings /\ clock \in 1 .. MaxClock /\ discoveryLoaded \in BOOLEAN
  /\ flows \in 0 .. MaxFlows /\ ids \in 0 .. MaxFlows /\ gone \subseteq 1 .. MaxFlows
  /\ cookie \in Sessions
  /\ \A i \in DOMAIN redis : redis[i].session \in Sessions /\ redis[i].until \in Nat
  /\ \A r \in Requests : reqs[r].session \in Sessions

Forwarded(r) == reqs[r].phase = "forwarded"

(* No request goes through on a session at or after absolute_timeout seconds *)
(* from the authorization that began the session: neither refreshed tokens   *)
(* nor silent renewals (refresh_session_interval) start the count again.     *)
SessionsBounded ==
  \A r \in Requests :
    Forwarded(r) /\ reqs[r].via = "session" => reqs[r].now < reqs[r].session.login + cfg.absolute

(* A session in Redis ended by a logout, with no other request of it in      *)
(* flight, lets no later request through: its id never names a session again. *)
LogoutFinal == \A i \in gone : redis[i] = NoEntry

(* A bearer token let through is genuine, active, of a trusted issuer when    *)
(* it is verified here, and for this client or a listed audience whenever     *)
(* claim_validator asks for it.                                              *)
BearersRight ==
  \A r \in Requests :
    Forwarded(r) /\ reqs[r].via = "bearer" =>
      LET t == reqs[r].token IN
      /\ usesLocalJWTVerification => t.genuine /\ t.iss \in (IF cfg.issuers = {} THEN {"provider"} ELSE cfg.issuers \ {"none"})
      /\ t.active \notin {"false", "odd"}
      /\ cfg.match_client => t.aud = "client"
      /\ cfg.scopes => t.scope
=============================================================================
